---- MODULE Spec2Model ----
(***************************************************************************)
(* Model of the SEO audit front end (CodeWander-666/seoman-ai):            *)
(*   src/public/script.js   - SEOVisionPro, first class  ("v1")            *)
(*                          - SEOVisionPro, second class ("v2")            *)
(*   src/unnamed/part_000   - AdvancedSEOAnalyzer        ("adv")           *)
(*                          - SEOVisionPro               ("p0")            *)
(*                                                                         *)
(* Number representation.  JavaScript numbers are modelled by integers in  *)
(* fixed point:                                                            *)
(*   - cls is held in thousandths (0.1 is 100);                            *)
(*   - authority_score and e_e_a_t_score are held in tenths (6.5 is 65);   *)
(*   - every score (technical, content, authority) is held in tenths of a  *)
(*     point (100 points is 1000), so that a fractional score such as 54.5 *)
(*     is representable; overall is held in whole points, as Math.round    *)
(*     returns it.                                                         *)
(* An optional field of a JavaScript object is a field that may be missing *)
(* from the DOMAIN of the record that models the object.                   *)
(***************************************************************************)
EXTENDS Integers, Sequences, FiniteSets, TLC

VARIABLES
    variant,        \* which of the four front-end classes runs on the page
    urlValue,       \* the text of #urlInput: "empty", "invalid" or "valid"
    btnDisabled,    \* disabled flag of the audit / analyze button
    loading,        \* #loading is displayed
    dashboard,      \* #dashboard is displayed
    started,        \* audits started so far (requests issued)
    pending,        \* ids of the audits whose fetch has not settled
    currentAudit,   \* this.currentAudit / this.currentAnalysis
    shown,          \* the score card values last written (target of the counters)
    notification,   \* the notification last shown
    hideTimers,     \* pending 500 ms timeouts of hideLoading (v1, adv)
    aiTimers,       \* pending 1500 ms timeouts of startAIStream, oldest first (v2); each
                    \* with its document and whether resetAudit has run since it was set
    aiText,         \* the narrative last handed to typeWriter (v2)
    firstScores,    \* history: the first score evaluation, and how many were made
    firstText,      \* history: the first narrative generated, and how many were
    lastEvent,      \* history: the handler that ran last and the functions it called
    thinWarning,    \* #thinWarning is displayed (v2, p0)
    shownOf,        \* history: the audit whose response was displayed last (0: none)
    progress,       \* the progress intervals that are active, by the audit that set them
    progressInterval,   \* this.progressInterval: an interval, or 0 for undefined
    typing,         \* the typewriters that are running, in the order they started (v2)
    aiLists,        \* the items of #techFixes, #contentOpps and #quickWins (v2)
    aiStreamComplete,   \* this.aiStreamComplete (v2)
    streamOld,      \* history: the typewriter that finished last was one from before
                    \* the last resetAudit
    notifShown,     \* #notification carries the class show (adv)
    notifTimers,    \* pending 5 s timeouts of showNotification (adv)
    clipboard,      \* what was last written to the clipboard
    download,       \* the file last offered as a download
    completed,      \* history: a response has been handled to the end without an error
    fnKind,     \* scoring harness: which function is applied to fnIn
    fnIn,       \* scoring harness: the argument
    fnOut,      \* scoring harness: the value returned for fnIn
    fnPrev,     \* scoring harness: the value returned before the last change of fnIn
    fnOp        \* scoring harness: "init", "scored", or the signal last improved

harnessVars == <<fnKind, fnIn, fnOut, fnPrev, fnOp>>

uiVars ==
    <<variant, urlValue, btnDisabled, loading, dashboard, started, pending, currentAudit,
      shown, notification, hideTimers, aiTimers, aiText, firstScores, firstText, lastEvent,
      thinWarning, shownOf, progress, progressInterval, typing, aiLists, aiStreamComplete,
      streamOld, notifShown, notifTimers, clipboard, download, completed>>

\* the parts of the page state that most handlers leave alone
intervalVars == <<progress, progressInterval>>
streamVars == <<typing, aiLists, aiStreamComplete, streamOld>>
noteVars == <<notifShown, notifTimers>>
shareVars == <<clipboard, download>>

vars == <<uiVars, harnessVars>>

(***************************************************************************)
(* Bounds of the model.                                                    *)
(***************************************************************************)
MaxCanonicalIssues == 11    \* longest canonical_issues list
MaxEntities == 10           \* most keys in entity_salience
MaxHalfPoints == 20         \* authority_score, e_e_a_t_score: 0, 0.5, ..., 10
MaxAudits == 2              \* audits started on one page
MaxItems == 6               \* longest list of insights or recommendations
MaxNotifications == 2       \* notifications of AdvancedSEOAnalyzer within 5 seconds
MaxText == 4                \* longest text handed to typeWriter

(***************************************************************************)
(* Fixed-point scales.                                                     *)
(***************************************************************************)
Pts(n) == n * 10            \* n whole points, in tenths of a point

(***************************************************************************)
(* JavaScript objects with optional fields.                                *)
(***************************************************************************)
Has(r, f) == f \in DOMAIN r

\* the objects that have either no field f or a field f with a value of S
Opt(f, S) == {<<>>} \cup {(f :> v) : v \in S}

\* r.f || {}  for an object-valued field
ObjOrEmpty(r, f) == IF Has(r, f) THEN r[f] ELSE <<>>

\* r.f || 0  for a number-valued field (undefined and 0 both give 0)
NumOrZero(r, f) == IF Has(r, f) THEN r[f] ELSE 0

\* truthiness of a boolean-valued field (undefined is falsy)
Truthy(r, f) == Has(r, f) /\ r[f]

\* r.f && r.f <= limit  for a number-valued field: undefined and 0 are falsy
TruthyAndAtMost(r, f, limit) == Has(r, f) /\ r[f] # 0 /\ r[f] <= limit

\* r.f > limit  for a number-valued field: undefined > limit is false
Exceeds(r, f, limit) == Has(r, f) /\ r[f] > limit

\* r.f < limit  for a number-valued field: undefined < limit is false
Below(r, f, limit) == Has(r, f) /\ r[f] < limit

Min(a, b) == IF a <= b THEN a ELSE b
Max(a, b) == IF a >= b THEN a ELSE b

\* Math.max(0, Math.min(100, score)), on tenths
ClampScoreNoFloor(score) == Min(Pts(100), score)
ClampScore(score) == Max(0, Min(Pts(100), score))

(***************************************************************************)
(* Category scorers of SEOVisionPro (v2), src/public/script.js 772-846.    *)
(***************************************************************************)
LcpLimit == 2500            \* ms
ClsLimit == 100             \* 0.1, in thousandths
InpLimit == 200             \* ms
BaseScore == 50

\* vitals.x && vitals.x <= limit
VitalGood(vitals, f, limit) == TruthyAndAtMost(vitals, f, limit)

\* tech.canonical_issues && tech.canonical_issues.length > 0 ? length * 5 : 0
CanonicalPenalty(tech) ==
    IF Has(tech, "canonical_issues") /\ Len(tech.canonical_issues) > 0
    THEN Len(tech.canonical_issues) * 5
    ELSE 0

calculateTechnicalScore(tech) ==
    LET vitals == ObjOrEmpty(tech, "core_web_vitals")
        s0 == BaseScore
        s1 == s0 + (IF VitalGood(vitals, "lcp", LcpLimit) THEN 15 ELSE 0)
        s2 == s1 + (IF VitalGood(vitals, "cls", ClsLimit) THEN 15 ELSE 0)
        s3 == s2 + (IF VitalGood(vitals, "inp", InpLimit) THEN 10 ELSE 0)
        s4 == s3 + (IF Truthy(tech, "mobile_friendly") THEN 10 ELSE 0)
        s5 == s4 + (IF Has(tech, "ssl_grade") /\ tech.ssl_grade = "A" THEN 10 ELSE 0)
        s6 == s5 - CanonicalPenalty(tech)
    IN  ClampScore(Pts(s6))

\* the word-count tier chain: if / else if / else if / else if
WordTierStacked(wordCount) ==
      (IF wordCount >= 1000 THEN 20 ELSE 0) + (IF wordCount >= 500 THEN 15 ELSE 0)
    + (IF wordCount >= 300 THEN 10 ELSE 0) + (IF wordCount >= 150 THEN 5 ELSE 0)
WordTier(wordCount) ==
    IF wordCount >= 1000 THEN 20
    ELSE IF wordCount >= 500 THEN 15
    ELSE IF wordCount >= 300 THEN 10
    ELSE IF wordCount >= 150 THEN 5
    ELSE 0

ReadabilityTier(readability) ==
    IF readability >= 60 THEN 15
    ELSE IF readability >= 40 THEN 10
    ELSE 0

\* Object.keys(entities).length
EntityCount(content) == Cardinality(DOMAIN ObjOrEmpty(content, "entity_salience"))

EntityTier(entityCount) ==
    IF entityCount >= 10 THEN 15
    ELSE IF entityCount >= 5 THEN 10
    ELSE IF entityCount >= 3 THEN 5
    ELSE 0

calculateContentScore(content) ==
    LET s0 == BaseScore
        s1 == s0 + WordTier(NumOrZero(content, "word_count"))
        s2 == s1 + ReadabilityTier(NumOrZero(content, "readability_score"))
        s3 == s2 + EntityTier(EntityCount(content))
        s4 == s3 - (IF Truthy(content, "thin_content_risk") THEN 20 ELSE 0)
    IN  ClampScore(Pts(s4))

BacklinkTierShifted(backlinks) ==
    IF backlinks > 100 THEN 20
    ELSE IF backlinks > 50 THEN 15
    ELSE IF backlinks > 20 THEN 10
    ELSE IF backlinks > 10 THEN 5
    ELSE 0
BacklinkTier(backlinks) ==
    IF backlinks >= 100 THEN 20
    ELSE IF backlinks >= 50 THEN 15
    ELSE IF backlinks >= 20 THEN 10
    ELSE IF backlinks >= 10 THEN 5
    ELSE 0

ToxicityPenalty(authority) ==
    IF Has(authority, "link_toxicity_risk") /\ authority.link_toxicity_risk = "high" THEN 20
    ELSE IF Has(authority, "link_toxicity_risk") /\ authority.link_toxicity_risk = "medium" THEN 10
    ELSE 0

\* authScore and eeat are in tenths, so authScore * 3 and eeat * 5 are already
\* in tenths of a point; the code does not round the sum
calculateAuthorityScore(authority) ==
    LET authScore == NumOrZero(authority, "authority_score")
        eeat == NumOrZero(authority, "e_e_a_t_score")
        s0 == Pts(BaseScore)
        s1 == s0 + Min(Pts(30), authScore * 3)
        s2 == s1 + Pts(BacklinkTier(NumOrZero(authority, "backlinks")))
        s3 == s2 + eeat * 5
        s4 == s3 - Pts(ToxicityPenalty(authority))
    IN  ClampScore(s4)

\* Math.round(x / 3) for x >= 0 in tenths: the nearest whole point, halves up
FloorThird(sumTenths) == sumTenths \div Pts(3)
RoundThird(sumTenths) == (2 * sumTenths + Pts(3)) \div Pts(6)

\* displayScores, script.js 720-726: the four values handed to animateCounter
displayScores(data) ==
    LET tech == calculateTechnicalScore(ObjOrEmpty(data, "technical"))
        content == calculateContentScore(ObjOrEmpty(data, "content"))
        authority == calculateAuthorityScore(ObjOrEmpty(data, "authority"))
    IN  [tech |-> tech, content |-> content, authority |-> authority,
         overall |-> RoundThird(tech + content + authority)]

(***************************************************************************)
(* Inputs.  The values of each field straddle the thresholds of the code.  *)
(***************************************************************************)
LcpValues == {0, 2000, 2500, 3000}
ClsValues == {0, 100, 150}
InpValues == {0, 200, 300}
VitalValues(f) == IF f = "lcp" THEN LcpValues ELSE IF f = "cls" THEN ClsValues ELSE InpValues

IssueList(n) == [i \in 1..n |-> "duplicate canonical"]
Entities(n) == [i \in 1..n |-> 1]

Vitals ==
    { a @@ b @@ c : a \in Opt("lcp", LcpValues), b \in Opt("cls", ClsValues),
                    c \in Opt("inp", InpValues) }

TechRecs ==
    { v @@ m @@ g @@ c :
        v \in Opt("core_web_vitals", Vitals),
        m \in Opt("mobile_friendly", BOOLEAN),
        g \in Opt("ssl_grade", {"A", "F"}),
        c \in Opt("canonical_issues", {IssueList(n) : n \in {0, 1, 2, MaxCanonicalIssues}}) }

ContentRecs ==
    { w @@ r @@ e @@ t :
        w \in Opt("word_count", {0, 149, 150, 299, 300, 499, 500, 999, 1000}),
        r \in Opt("readability_score", {0, 39, 40, 59, 60, 100}),
        e \in Opt("entity_salience", {Entities(n) : n \in 0..MaxEntities}),
        t \in Opt("thin_content_risk", BOOLEAN) }

HalfPoints == {5 * k : k \in 0..MaxHalfPoints}

AuthorityRecs ==
    { a @@ b @@ e @@ t :
        a \in Opt("authority_score", HalfPoints),
        b \in Opt("backlinks", {0, 9, 10, 19, 20, 49, 50, 99, 100}),
        e \in Opt("e_e_a_t_score", HalfPoints),
        t \in Opt("link_toxicity_risk", {"low", "medium", "high"}) }

\* the sub-records of the audit documents the server returns in the model
DemoTechnical ==
    [core_web_vitals |-> [lcp |-> 1800, cls |-> 50, inp |-> 150],
     mobile_friendly |-> TRUE, ssl_grade |-> "A", canonical_issues |-> <<>>]
SlowTechnical ==
    [core_web_vitals |-> [lcp |-> 3000, cls |-> 150], mobile_friendly |-> FALSE,
     ssl_grade |-> "F"]
BrokenTechnical == [canonical_issues |-> IssueList(MaxCanonicalIssues)]

DemoContent ==
    [word_count |-> 1250, readability_score |-> 72, entity_salience |-> Entities(MaxEntities),
     thin_content_risk |-> FALSE]
ThinContent == [word_count |-> 120, thin_content_risk |-> TRUE]

DemoAuthority ==
    [authority_score |-> 65, backlinks |-> 850, e_e_a_t_score |-> 70,
     link_toxicity_risk |-> "low"]
WeakAuthority == [authority_score |-> 15, link_toxicity_risk |-> "high"]

DataRecs ==
    { t @@ c @@ a :
        t \in Opt("technical", {<<>>, DemoTechnical, SlowTechnical, BrokenTechnical}),
        c \in Opt("content", {<<>>, DemoContent, ThinContent}),
        a \in Opt("authority", {<<>>, DemoAuthority, WeakAuthority}) }

(***************************************************************************)
(* The narrative of the "AI Strategic Advisor", script.js 1118-1153.  The  *)
(* string is modelled by the sequence of its lines (the bullet character   *)
(* is written "*"); two strings are equal exactly when their lines are.    *)
(***************************************************************************)
Line(cond, text) == IF cond THEN <<text>> ELSE <<>>

NarrativeHeader == <<"Based on my analysis, here are the key findings:", "">>
NarrativeClosing ==
    <<"", "Priority Recommendations: Technical fixes first, then content expansion, followed by authority building.">>

\* (the content findings listed before the technical ones)
NarrativeFindingsContentFirst(data) ==
    LET tech == ObjOrEmpty(data, "technical")
        content == ObjOrEmpty(data, "content")
        authority == ObjOrEmpty(data, "authority")
        vitals == ObjOrEmpty(tech, "core_web_vitals")
    IN  Line(Truthy(content, "thin_content_risk"),
             "* Content depth is insufficient. Expand topic coverage.")
        \o Line(Below(content, "word_count", 300),
                "* Consider expanding content for better topical authority.")
        \o Line(Exceeds(vitals, "lcp", LcpLimit),
                "* LCP needs improvement (>2.5s). Optimize largest contentful paint.")
        \o Line(Exceeds(vitals, "cls", ClsLimit),
                "* Layout shifts detected. Fix CLS issues for better UX.")
        \o Line(~Truthy(tech, "mobile_friendly"),
                "* Mobile responsiveness needs improvement.")
        \o Line(NumOrZero(authority, "authority_score") < 40,
                "* Domain authority is low. Focus on link building.")
\* the findings, in the order the code appends them
NarrativeFindings(data) ==
    LET tech == ObjOrEmpty(data, "technical")
        content == ObjOrEmpty(data, "content")
        authority == ObjOrEmpty(data, "authority")
        vitals == ObjOrEmpty(tech, "core_web_vitals")
    IN  Line(Exceeds(vitals, "lcp", LcpLimit),
             "* LCP needs improvement (>2.5s). Optimize largest contentful paint.")
        \o Line(Exceeds(vitals, "cls", ClsLimit),
                "* Layout shifts detected. Fix CLS issues for better UX.")
        \o Line(~Truthy(tech, "mobile_friendly"),
                "* Mobile responsiveness needs improvement.")
        \o Line(Truthy(content, "thin_content_risk"),
                "* Content depth is insufficient. Expand topic coverage.")
        \o Line(Below(content, "word_count", 300),
                "* Consider expanding content for better topical authority.")
        \o Line(NumOrZero(authority, "authority_score") < 40,
                "* Domain authority is low. Focus on link building.")

\* (a narrative that greets only once per page instance)
generateAIAnalysisOfInstance(data) ==
    (IF aiText.n = 0 THEN NarrativeHeader ELSE <<>>)
    \o NarrativeFindings(data) \o NarrativeClosing
generateAIAnalysis(data) ==
    NarrativeHeader \o NarrativeFindings(data) \o NarrativeClosing

\* populateAICategories, script.js 1155-1226: the items appended to #techFixes
techFixes(data) ==
    LET tech == ObjOrEmpty(data, "technical")
        vitals == ObjOrEmpty(tech, "core_web_vitals")
        fixes ==
            Line(Exceeds(vitals, "lcp", LcpLimit),
                 "Optimize images and defer non-critical JavaScript to improve LCP")
            \o Line(Exceeds(vitals, "cls", ClsLimit),
                    "Add size attributes to images and ads to prevent layout shifts")
            \o Line(~Truthy(tech, "mobile_friendly"),
                    "Implement responsive design and test on mobile devices")
            \o Line(~(Has(tech, "ssl_grade") /\ tech.ssl_grade = "A"),
                    "Upgrade SSL/TLS configuration for better security")
    IN  IF fixes = <<>> THEN <<"No critical technical issues detected">> ELSE fixes

\* the items appended to #contentOpps
contentOpps(data) ==
    LET content == ObjOrEmpty(data, "content")
        opportunities ==
            Line(Truthy(content, "thin_content_risk"),
                 "Expand content with comprehensive topic coverage")
            \o Line(NumOrZero(content, "word_count") < 500,
                    "Increase content depth for better topical authority")
            \o Line(~Has(content, "entity_salience") \/ EntityCount(content) < 5,
                    "Add more entity mentions for semantic relevance")
    IN  IF opportunities = <<>>
        THEN <<"Content quality is good - focus on optimization">>
        ELSE opportunities

\* the items appended to #quickWins
quickWins ==
    <<"Fix meta title and description if missing or duplicated",
      "Ensure all images have descriptive alt text",
      "Check and fix any broken internal links",
      "Submit updated sitemap to Google Search Console">>

\* populateAICategories appends to the three lists as it finds them
populateAICategories(lists, data) ==
    [techFixes |-> lists.techFixes \o techFixes(data),
     contentOpps |-> lists.contentOpps \o contentOpps(data),
     quickWins |-> lists.quickWins \o quickWins]

(***************************************************************************)
(* What the audit endpoint can answer.                                     *)
(***************************************************************************)
Variants == {"v1", "v2", "adv", "p0"}

\* the documents a SEOVisionPro page (v2, p0) scores itself: complete ones, with
\* and without thin content, and ones that lack a sub-record
Document(tech, content, authority) ==
    [technical |-> tech, content |-> content, authority |-> authority]
UIData ==
    { <<>>,
      Document(DemoTechnical, DemoContent, DemoAuthority),
      Document(DemoTechnical, ThinContent, DemoAuthority),
      Document(SlowTechnical, DemoContent, WeakAuthority),
      Document(SlowTechnical, ThinContent, WeakAuthority),
      [technical |-> DemoTechnical, content |-> ThinContent],
      [technical |-> SlowTechnical, authority |-> WeakAuthority],
      [content |-> ThinContent, authority |-> DemoAuthority] }

\* the documents that carry scores computed by the server (v1, adv)
ServerScores == [overall |-> 72, technical |-> 80, content |-> 65, authority |-> 70]
ScoredData == {<<>>, [scores |-> ServerScores]}

ErrorBodies == {[error |-> "Target unreachable"]}

DataBodies(v) == IF v \in {"v2", "p0"} THEN UIData ELSE ScoredData

NoResponse == [kind |-> "none", ok |-> FALSE, parsable |-> FALSE, body |-> <<>>]
Reject == [kind |-> "reject", ok |-> FALSE, parsable |-> FALSE, body |-> <<>>]
Garbled(ok) == [kind |-> "http", ok |-> ok, parsable |-> FALSE, body |-> <<>>]
Http(ok, body) == [kind |-> "http", ok |-> ok, parsable |-> TRUE, body |-> body]

Responses(v) ==
    {Reject, Garbled(TRUE), Garbled(FALSE)}
    \cup {Http(FALSE, b) : b \in ErrorBodies \cup {<<>>}}
    \cup {Http(TRUE, b) : b \in ErrorBodies \cup DataBodies(v)}

\* the answers of a brief endpoint: one of each way a fetch can settle, and as data
\* a complete document with nothing to report and one with something in each list
BriefBodies(v) ==
    IF v \in {"v2", "p0"}
    THEN {Document(DemoTechnical, DemoContent, DemoAuthority),
          Document(SlowTechnical, ThinContent, WeakAuthority)}
    ELSE ScoredData

Answers(v) ==
    {Reject, Garbled(TRUE), Http(FALSE, <<>>)} \cup {Http(TRUE, b) : b \in BriefBodies(v)}

(***************************************************************************)
(* Page state after construction.                                          *)
(***************************************************************************)
NoAudit == [set |-> FALSE]
NoScores == [set |-> FALSE]
NoNotification == [type |-> "none", msg |-> "none"]
Notify(type, msg) == [type |-> type, msg |-> msg]
Event(handler, resp, calls, threw) ==
    [handler |-> handler, resp |-> resp, calls |-> calls, threw |-> threw]
NoItems == [techFixes |-> <<>>, contentOpps |-> <<>>, quickWins |-> <<>>]
Nothing == [set |-> FALSE]

PageInit(v) ==
    /\ variant = v
    /\ urlValue = "empty"
    /\ btnDisabled = FALSE
    /\ loading = FALSE
    /\ dashboard = FALSE
    /\ started = 0
    /\ pending = {}
    /\ currentAudit = NoAudit
    /\ shown = NoScores
    /\ notification = IF v = "adv" THEN Notify("success", "ready") ELSE NoNotification
    /\ hideTimers = 0
    /\ aiTimers = <<>>
    /\ aiText = [n |-> 0]
    /\ firstScores = [n |-> 0]
    /\ firstText = [n |-> 0]
    /\ lastEvent = Event("constructor", NoResponse, {}, FALSE)
    /\ thinWarning = FALSE
    /\ shownOf = 0
    /\ progress = {}
    /\ progressInterval = 0
    /\ typing = <<>>
    /\ aiLists = NoItems
    /\ aiStreamComplete = FALSE
    /\ streamOld = FALSE
    /\ notifShown = (v = "adv")          \* part_000 13: init shows "Ready"
    /\ notifTimers = IF v = "adv" THEN 1 ELSE 0
    /\ clipboard = Nothing
    /\ download = Nothing
    /\ completed = FALSE

\* isValidURL / validateURL on the trimmed text of the input
isValidURL(url) == url = "valid"

(***************************************************************************)
(* Pieces shared by the handlers.                                          *)
(***************************************************************************)
ScoreCalls == {"calculateTechnicalScore", "calculateContentScore", "calculateAuthorityScore"}
DisplayCalls == {"displayResults", "displayAdvancedResults", "displayScores"}
CatchCalls == {"showNotification", "hideLoading"}

\* the score cards written from four values
Cards(sc) ==
    [set |-> TRUE, tech |-> sc.tech, content |-> sc.content, authority |-> sc.authority,
     overall |-> sc.overall]

\* the score cards written from data.scores, which the server computed
ServerCards(scores) ==
    [set |-> TRUE, tech |-> Pts(scores.technical), content |-> Pts(scores.content),
     authority |-> Pts(scores.authority), overall |-> scores.overall]

\* history of the score evaluations: the first one is kept, all are counted
NoteScores(data, sc) ==
    firstScores' = IF firstScores.n = 0
                   THEN [n |-> 1, data |-> data, scores |-> sc]
                   ELSE [firstScores EXCEPT !.n = @ + 1]

\* a request is issued: the audit joins the pending ones
IssueRequest ==
    /\ started < MaxAudits
    /\ started' = started + 1
    /\ pending' = pending \cup {started + 1}

\* showNotification of AdvancedSEOAnalyzer (part_000 604-615) rewrites the one
\* #notification element and starts a 5 s timeout; the other classes build a new
\* element for every notification, with a timeout of its own
StartNoteTimer ==
    IF variant = "adv"
    THEN /\ notifTimers < MaxNotifications
         /\ notifTimers' = notifTimers + 1
         /\ notifShown' = TRUE
    ELSE UNCHANGED noteVars

\* setInterval of animateProgress / showLoading, for the audit being started
Interval(id, at) == [id |-> id, at |-> at]
SetInterval(at) == progress' = progress \cup {Interval(started + 1, at)}

\* if (this.progressInterval) clearInterval(this.progressInterval)
ClearStoredInterval == progress' = {t \in progress : t.id # progressInterval}

\* the branch of startAudit / startAnalysis that rejects the input
RejectInput ==
    /\ ~isValidURL(urlValue)
    /\ notification' = Notify("error", "invalid url")
    /\ StartNoteTimer
    /\ lastEvent' = Event("startAudit", NoResponse, {"showNotification"}, FALSE)
    /\ UNCHANGED <<thinWarning, shownOf,
                   variant, urlValue, btnDisabled, loading, dashboard, started, pending,
                   currentAudit, shown, hideTimers, aiTimers, aiText, firstScores, firstText>>
    /\ UNCHANGED <<intervalVars, streamVars, shareVars, completed>>

\* a click needs an enabled button; the Enter key on #urlInput does not
Triggered(triggers) == \E trigger \in triggers : trigger = "click" => ~btnDisabled

\* data.technical && data.content && data.authority
HasAllThree(data) == Has(data, "technical") /\ Has(data, "content") /\ Has(data, "authority")

(***************************************************************************)
(* v1: SEOVisionPro, script.js 1-324.                                      *)
(***************************************************************************)
V1_startAudit ==
    /\ variant = "v1"
    /\ UNCHANGED harnessVars
    /\ Triggered({"click", "enter"})
    /\ \/ RejectInput
       \/ /\ isValidURL(urlValue)
          /\ IssueRequest
          /\ loading' = TRUE                                  \* showLoading
          /\ btnDisabled' = TRUE
          /\ SetInterval("fresh")                             \* animateProgress
          /\ lastEvent' = Event("startAudit", NoResponse, {"showLoading"}, FALSE)
          /\ UNCHANGED <<thinWarning, shownOf,
                         variant, urlValue, dashboard, currentAudit, shown, notification,
                         hideTimers, aiTimers, aiText, firstScores, firstText>>
          /\ UNCHANGED <<progressInterval, streamVars, noteVars, shareVars, completed>>

\* the rest of startAudit, once the fetch has settled with resp
V1_settle(id, resp) ==
    /\ variant = "v1"
    /\ UNCHANGED harnessVars
    /\ pending' = pending \ {id}
    /\ ClearStoredInterval                                    \* hideLoading, either way
    /\ hideTimers' = hideTimers + 1
    /\ IF resp.kind = "reject" \/ ~resp.ok \/ ~resp.parsable \/ Has(resp.body, "error")
       THEN /\ notification' = Notify("error", "Audit failed")
            /\ lastEvent' = Event("startAudit", resp, CatchCalls, FALSE)
            /\ UNCHANGED <<dashboard, shown, shownOf, completed>>
       ELSE /\ dashboard' = TRUE                              \* displayResults
            /\ shownOf' = id
            /\ completed' = TRUE
            /\ shown' = IF Has(resp.body, "scores")
                        THEN ServerCards(resp.body.scores) ELSE shown
            /\ notification' = Notify("success", "completed")
            /\ lastEvent' = Event("startAudit", resp,
                                  {"displayResults", "hideLoading", "showNotification"},
                                  FALSE)
    /\ UNCHANGED <<variant, thinWarning, urlValue, btnDisabled, loading, started,
                   currentAudit, aiTimers, aiText, firstScores, firstText>>
    /\ UNCHANGED <<progressInterval, streamVars, noteVars, shareVars>>

V1_onResponse == \E id \in pending : \E resp \in Responses("v1") : V1_settle(id, resp)
V1_onAnswer == \E id \in pending : \E resp \in Answers("v1") : V1_settle(id, resp)

(***************************************************************************)
(* v2: SEOVisionPro, script.js 431-1324.                                   *)
(***************************************************************************)
V2_startAudit ==
    /\ variant = "v2"
    /\ UNCHANGED harnessVars
    /\ Triggered({"click", "enter"})
    /\ \/ RejectInput
       \/ /\ isValidURL(urlValue)
          /\ IssueRequest
          /\ btnDisabled' = TRUE                              \* showLoading
          /\ loading' = TRUE
          /\ SetInterval("running")                           \* animateProgress
          /\ progressInterval' = started + 1
          /\ dashboard' = FALSE
          /\ lastEvent' = Event("startAudit", NoResponse, {"showLoading"}, FALSE)
          /\ UNCHANGED <<thinWarning, shownOf, variant, urlValue, currentAudit, shown, notification,
                         hideTimers, aiTimers, aiText, firstScores, firstText>>
          /\ UNCHANGED <<streamVars, noteVars, shareVars, completed>>

V2_settle(id, resp) ==
    /\ variant = "v2"
    /\ UNCHANGED harnessVars
    /\ pending' = pending \ {id}
    /\ ClearStoredInterval                                    \* hideLoading, either way
    /\ loading' = FALSE
    /\ btnDisabled' = FALSE
    /\ IF resp.kind = "reject" \/ ~resp.ok \/ ~resp.parsable
       THEN /\ notification' = Notify("error", "Audit failed")
            /\ lastEvent' = Event("startAudit", resp, CatchCalls, FALSE)
            /\ UNCHANGED <<dashboard, currentAudit, shown, aiTimers, firstScores,
                           thinWarning, shownOf, aiLists, completed>>
       ELSE LET data == resp.body
                sc == displayScores(data)
                ai == HasAllThree(data)
            IN  /\ currentAudit' = [set |-> TRUE, data |-> data]
                /\ shownOf' = id
                /\ completed' = TRUE
                /\ dashboard' = TRUE                          \* displayResults
                \* displayContentMetrics, script.js 933-939
                /\ thinWarning' = Truthy(ObjOrEmpty(data, "content"), "thin_content_risk")
                /\ shown' = Cards(sc)
                /\ NoteScores(data, sc)
                /\ notification' = Notify("success", "completed")
                \* startAIStream, script.js 1049-1077: the lists are cleared and the
                \* 1500 ms timeout is set
                /\ aiTimers' = IF ai THEN Append(aiTimers, [data |-> data, old |-> FALSE])
                               ELSE aiTimers
                /\ aiLists' = IF ai THEN NoItems ELSE aiLists
                /\ lastEvent' = Event("startAudit", resp,
                                      {"displayResults", "hideLoading", "displayScores",
                                       "showNotification"}
                                      \cup ScoreCalls
                                      \cup (IF ai THEN {"startAIStream"} ELSE {}),
                                      FALSE)
    /\ UNCHANGED <<variant, urlValue, started, hideTimers, aiText, firstText>>
    /\ UNCHANGED <<progressInterval, typing, aiStreamComplete, streamOld, noteVars,
                   shareVars>>

V2_onResponse == \E id \in pending : \E resp \in Responses("v2") : V2_settle(id, resp)
V2_onAnswer == \E id \in pending : \E resp \in Answers("v2") : V2_settle(id, resp)

\* the 1500 ms timeout of startAIStream fires: simulateAIResponse generates the
\* narrative and starts the typewriter on it
V2_simulateAIResponse ==
    /\ variant = "v2"
    /\ UNCHANGED harnessVars
    /\ aiTimers # <<>>
    /\ LET data == Head(aiTimers).data
           text == generateAIAnalysis(data)
       IN  /\ aiText' = [n |-> aiText.n + 1, data |-> data, text |-> text]
           /\ firstText' = IF firstText.n = 0
                           THEN [n |-> 1, data |-> data, text |-> text]
                           ELSE [firstText EXCEPT !.n = @ + 1]
    /\ typing' = Append(typing, Head(aiTimers))
    /\ aiTimers' = Tail(aiTimers)
    /\ lastEvent' = Event("timer", NoResponse, {"simulateAIResponse", "generateAIAnalysis"},
                          FALSE)
    /\ UNCHANGED <<thinWarning, shownOf,
                   variant, urlValue, btnDisabled, loading, dashboard, started, pending,
                   currentAudit, shown, notification, hideTimers, firstScores>>
    /\ UNCHANGED <<intervalVars, aiLists, aiStreamComplete, streamOld, noteVars,
                   shareVars, completed>>

\* a typewriter reaches the end of its text: the callback of simulateAIResponse,
\* script.js 1101-1105, appends to the lists and sets aiStreamComplete
V2_typeWriterEnds ==
    \E k \in 1..Len(typing) :
        /\ variant = "v2"
        /\ UNCHANGED harnessVars
        /\ aiLists' = populateAICategories(aiLists, typing[k].data)
        /\ aiStreamComplete' = TRUE
        /\ streamOld' = typing[k].old
        /\ typing' = [i \in 1..(Len(typing) - 1) |->
                         IF i < k THEN typing[i] ELSE typing[i + 1]]
        /\ lastEvent' = Event("timer", NoResponse, {"typeWriter", "populateAICategories"},
                              FALSE)
        /\ UNCHANGED <<thinWarning, shownOf,
                       variant, urlValue, btnDisabled, loading, dashboard, started, pending,
                       currentAudit, shown, notification, hideTimers, aiTimers, aiText,
                       firstScores, firstText>>
        /\ UNCHANGED <<intervalVars, noteVars, shareVars, completed>>

\* the input event on #urlInput: the user edits the text, validateInput runs
V2_validateInput ==
    \E v \in {"empty", "invalid", "valid"} :
        /\ variant = "v2"
        /\ UNCHANGED harnessVars
        /\ v # urlValue
        /\ urlValue' = v
        /\ btnDisabled' = (v = "invalid")
        /\ lastEvent' = Event("input", NoResponse, {"validateInput"}, FALSE)
        /\ UNCHANGED <<thinWarning, shownOf,
                       variant, loading, dashboard, started, pending, currentAudit, shown,
                       notification, hideTimers, aiTimers, aiText, firstScores, firstText>>
        /\ UNCHANGED <<intervalVars, streamVars, noteVars, shareVars, completed>>

\* what shareReport copies: the texts of the four score elements
ShareText(cards) == [set |-> TRUE, text |-> cards]

\* shareReport, script.js 1260-1276; writeText resolves or rejects
V2_shareReport ==
    /\ variant = "v2"
    /\ UNCHANGED harnessVars
    /\ IF ~currentAudit.set
       THEN /\ notification' = Notify("error", "No report to share")
            /\ UNCHANGED clipboard
       ELSE \E written \in BOOLEAN :
                /\ clipboard' = IF written THEN ShareText(shown) ELSE clipboard
                /\ notification' = IF written THEN Notify("success", "copied")
                                   ELSE Notify("error", "Failed to copy")
    /\ lastEvent' = Event("shareReport", NoResponse, {"showNotification"}, FALSE)
    /\ UNCHANGED <<thinWarning, shownOf,
                   variant, urlValue, btnDisabled, loading, dashboard, started, pending,
                   currentAudit, shown, hideTimers, aiTimers, aiText, firstScores, firstText>>
    /\ UNCHANGED <<intervalVars, streamVars, noteVars, download, completed>>

(***************************************************************************)
(* p0: SEOVisionPro, part_000 638-842.  The file stops inside              *)
(* displayResults; the scorers of this class are not in it and follow the  *)
(* rule table of the specification (section 4.2), which is the table of    *)
(* script.js.                                                              *)
(***************************************************************************)
P0_calculateTechnicalScore(tech) == calculateTechnicalScore(tech)
P0_calculateContentScore(content) == calculateContentScore(content)
P0_calculateAuthorityScore(authority) == calculateAuthorityScore(authority)

\* part_000 771-775
P0_scores(data) ==
    LET techScore == P0_calculateTechnicalScore(ObjOrEmpty(data, "technical"))
        contentScore == P0_calculateContentScore(ObjOrEmpty(data, "content"))
        authorityScore == P0_calculateAuthorityScore(ObjOrEmpty(data, "authority"))
    IN  [tech |-> techScore, content |-> contentScore, authority |-> authorityScore,
         overall |-> RoundThird(techScore + contentScore + authorityScore)]

\* part_000 784, 800, 825 read data.technical.x, data.content.x and
\* data.authority.x: a TypeError when the sub-record is undefined
P0_displayThrows(data) == ~HasAllThree(data)

P0_startAudit ==
    /\ variant = "p0"
    /\ UNCHANGED harnessVars
    /\ Triggered({"click"})
    /\ \/ RejectInput
       \/ /\ isValidURL(urlValue)
          /\ IssueRequest
          /\ loading' = TRUE                                  \* showLoading
          /\ SetInterval("running")                           \* the handle is not kept
          /\ dashboard' = FALSE
          /\ lastEvent' = Event("startAudit", NoResponse, {"showLoading"}, FALSE)
          /\ UNCHANGED <<thinWarning, shownOf,
                         variant, urlValue, btnDisabled, currentAudit, shown, notification,
                         hideTimers, aiTimers, aiText, firstScores, firstText>>
          /\ UNCHANGED <<progressInterval, streamVars, noteVars, shareVars, completed>>

P0_settle(id, resp) ==
    /\ variant = "p0"
    /\ UNCHANGED harnessVars
    /\ pending' = pending \ {id}
    /\ loading' = FALSE                                       \* hideLoading, either way
    /\ IF resp.kind = "reject" \/ ~resp.parsable \/ ~resp.ok
       THEN /\ notification' = Notify("error", "Audit failed")
            /\ lastEvent' = Event("startAudit", resp, CatchCalls, FALSE)
            /\ UNCHANGED <<currentAudit, shown, firstScores, thinWarning, shownOf,
                           completed>>
       ELSE LET data == resp.body
                sc == P0_scores(data)
                threw == P0_displayThrows(data)
            IN  /\ currentAudit' = [set |-> TRUE, data |-> data]
                /\ shownOf' = id
                /\ completed' = (completed \/ ~threw)
                \* part_000 804-806: the warning is shown, and never hidden
                /\ thinWarning' = IF Has(data, "technical") /\ Has(data, "content")
                                  THEN thinWarning \/ Truthy(data.content, "thin_content_risk")
                                  ELSE thinWarning
                /\ shown' = Cards(sc)                         \* written before any throw
                /\ NoteScores(data, sc)
                /\ notification' = IF threw THEN Notify("error", "Audit failed")
                                   ELSE notification
                /\ lastEvent' = Event("startAudit", resp,
                                      {"displayResults", "hideLoading"} \cup ScoreCalls
                                      \cup (IF threw THEN CatchCalls ELSE {}),
                                      threw)
    /\ UNCHANGED <<variant, urlValue, btnDisabled, dashboard, started, hideTimers,
                   aiTimers, aiText, firstText>>
    /\ UNCHANGED <<intervalVars, streamVars, noteVars, shareVars>>

P0_onResponse == \E id \in pending : \E resp \in Responses("p0") : P0_settle(id, resp)
P0_onAnswer == \E id \in pending : \E resp \in Answers("p0") : P0_settle(id, resp)

(***************************************************************************)
(* adv: AdvancedSEOAnalyzer, part_000 1-616.                               *)
(***************************************************************************)
Adv_startAnalysis ==
    /\ variant = "adv"
    /\ UNCHANGED harnessVars
    /\ Triggered({"click", "enter"})
    /\ \/ RejectInput
       \/ /\ isValidURL(urlValue)
          /\ IssueRequest
          /\ loading' = TRUE                                  \* showLoading
          /\ btnDisabled' = TRUE
          /\ SetInterval("fresh")                             \* animateProgress
          /\ dashboard' = FALSE
          /\ lastEvent' = Event("startAnalysis", NoResponse, {"showLoading"}, FALSE)
          /\ UNCHANGED <<thinWarning, shownOf, variant, urlValue, currentAudit, shown, notification,
                         hideTimers, aiTimers, aiText, firstScores, firstText>>
          /\ UNCHANGED <<progressInterval, streamVars, noteVars, shareVars, completed>>

Adv_settle(id, resp) ==
    /\ variant = "adv"
    /\ UNCHANGED harnessVars
    /\ pending' = pending \ {id}
    /\ ClearStoredInterval                                    \* hideLoading, either way
    /\ StartNoteTimer                                         \* showNotification, either way
    /\ IF resp.kind = "reject" \/ ~resp.ok \/ ~resp.parsable \/ Has(resp.body, "error")
       THEN /\ notification' = Notify("error", "Analysis failed")
            /\ hideTimers' = hideTimers + 1                   \* hideLoading
            /\ lastEvent' = Event("startAnalysis", resp, CatchCalls, FALSE)
            /\ UNCHANGED <<dashboard, currentAudit, shown, shownOf, completed>>
       ELSE LET data == resp.body
                \* displayScores(data.scores) reads scores[key]: a TypeError
                \* when data.scores is undefined
                threw == ~Has(data, "scores")
            IN  /\ currentAudit' = [set |-> TRUE, data |-> data]
                /\ shownOf' = id
                /\ completed' = (completed \/ ~threw)
                /\ dashboard' = TRUE                          \* displayAdvancedResults
                /\ shown' = IF threw THEN shown ELSE ServerCards(data.scores)
                /\ hideTimers' = hideTimers + (IF threw THEN 2 ELSE 1)
                /\ notification' = IF threw THEN Notify("error", "Analysis failed")
                                   ELSE Notify("success", "completed")
                /\ lastEvent' = Event("startAnalysis", resp,
                                      {"displayAdvancedResults", "hideLoading",
                                       "displayScores"}
                                      \cup (IF threw THEN CatchCalls
                                            ELSE {"showNotification"}),
                                      threw)
    /\ UNCHANGED <<variant, thinWarning, urlValue, btnDisabled, loading, started,
                   aiTimers, aiText, firstScores, firstText>>
    /\ UNCHANGED <<progressInterval, streamVars, shareVars>>

Adv_onResponse == \E id \in pending : \E resp \in Responses("adv") : Adv_settle(id, resp)
Adv_onAnswer == \E id \in pending : \E resp \in Answers("adv") : Adv_settle(id, resp)

\* a 5 s timeout of showNotification fires (part_000 612-614): it removes the class
\* show from #notification, whichever notification the element shows by then
Adv_notificationTimerFires ==
    /\ variant = "adv"
    /\ UNCHANGED harnessVars
    /\ notifTimers > 0
    /\ notifTimers' = notifTimers - 1
    /\ notifShown' = FALSE
    /\ lastEvent' = Event("timer", NoResponse, {}, FALSE)
    /\ UNCHANGED <<thinWarning, shownOf,
                   variant, urlValue, btnDisabled, loading, dashboard, started, pending,
                   currentAudit, shown, notification, hideTimers, aiTimers, aiText,
                   firstScores, firstText>>
    /\ UNCHANGED <<intervalVars, streamVars, shareVars, completed>>

\* exportReport, part_000 560-578
Adv_exportReport ==
    /\ variant = "adv"
    /\ UNCHANGED harnessVars
    /\ StartNoteTimer
    /\ IF ~currentAudit.set
       THEN /\ notification' = Notify("error", "No analysis data to export")
            /\ UNCHANGED download
       ELSE /\ download' = [set |-> TRUE, file |-> currentAudit.data]
            /\ notification' = Notify("success", "exported")
    /\ lastEvent' = Event("exportReport", NoResponse, {"showNotification"}, FALSE)
    /\ UNCHANGED <<thinWarning, shownOf,
                   variant, urlValue, btnDisabled, loading, dashboard, started, pending,
                   currentAudit, shown, hideTimers, aiTimers, aiText, firstScores, firstText>>
    /\ UNCHANGED <<intervalVars, streamVars, clipboard, completed>>

\* the text shareResults builds from this.currentAnalysis.scores (?. and || 0)
Adv_shareText(data) ==
    LET scores == ObjOrEmpty(data, "scores")
    IN  [set |-> TRUE,
         text |-> [overall |-> NumOrZero(scores, "overall"),
                   technical |-> NumOrZero(scores, "technical"),
                   content |-> NumOrZero(scores, "content"),
                   performance |-> NumOrZero(scores, "performance")]]

\* shareResults, part_000 580-602: an error without an analysis; else the share
\* sheet of the browser where there is one, else the clipboard
Adv_shareResults ==
    /\ variant = "adv"
    /\ UNCHANGED harnessVars
    /\ IF ~currentAudit.set
       THEN /\ notification' = Notify("error", "No analysis results to share")
            /\ StartNoteTimer
            /\ lastEvent' = Event("shareResults", NoResponse, {"showNotification"}, FALSE)
            /\ UNCHANGED clipboard
       ELSE \E way \in {"share", "written", "refused"} :
                /\ clipboard' = IF way = "written" THEN Adv_shareText(currentAudit.data)
                                ELSE clipboard
                /\ IF way = "written"
                   THEN notification' = Notify("success", "copied") /\ StartNoteTimer
                   ELSE UNCHANGED <<notification, noteVars>>
                /\ lastEvent' = Event("shareResults", NoResponse,
                                      IF way = "written" THEN {"showNotification"} ELSE {},
                                      FALSE)
    /\ UNCHANGED <<thinWarning, shownOf,
                   variant, urlValue, btnDisabled, loading, dashboard, started, pending,
                   currentAudit, shown, hideTimers, aiTimers, aiText, firstScores, firstText>>
    /\ UNCHANGED <<intervalVars, streamVars, download, completed>>

(***************************************************************************)
(* Handlers that the variants share.                                       *)
(***************************************************************************)
\* the user edits #urlInput on a page that has no input handler
TypeUrl ==
    \E v \in {"empty", "invalid", "valid"} :
        /\ variant # "v2"
        /\ UNCHANGED harnessVars
        /\ v # urlValue
        /\ urlValue' = v
        /\ lastEvent' = Event("input", NoResponse, {}, FALSE)
        /\ UNCHANGED <<thinWarning, shownOf,
                       variant, btnDisabled, loading, dashboard, started, pending,
                       currentAudit, shown, notification, hideTimers, aiTimers, aiText,
                       firstScores, firstText>>
        /\ UNCHANGED <<intervalVars, streamVars, noteVars, shareVars, completed>>

\* the 500 ms timeout of hideLoading fires (v1 script.js 170-176, adv part_000 187-191)
\* a timeout of hideLoading that hides the panel and leaves the button as it is
HideTimerHidesPanel ==
    /\ hideTimers > 0
    /\ UNCHANGED harnessVars
    /\ hideTimers' = hideTimers - 1
    /\ loading' = FALSE
    /\ lastEvent' = Event("timer", NoResponse, {}, FALSE)
    /\ UNCHANGED <<thinWarning, shownOf,
                   variant, urlValue, btnDisabled, dashboard, started, pending,
                   currentAudit, shown, notification, aiTimers, aiText, firstScores,
                   firstText>>
    /\ UNCHANGED <<intervalVars, streamVars, noteVars, shareVars, completed>>

HideTimerFires ==
    /\ hideTimers > 0
    /\ UNCHANGED harnessVars
    /\ hideTimers' = hideTimers - 1
    /\ loading' = FALSE
    /\ btnDisabled' = FALSE
    /\ lastEvent' = Event("timer", NoResponse, {}, FALSE)
    /\ UNCHANGED <<thinWarning, shownOf,
                   variant, urlValue, dashboard, started, pending, currentAudit, shown,
                   notification, aiTimers, aiText, firstScores, firstText>>
    /\ UNCHANGED <<intervalVars, streamVars, noteVars, shareVars, completed>>

\* a tick of the interval of animateProgress in the classes that keep the handle
\* from inside the callback (v1 script.js 146-159, adv part_000 156-169); the
\* interval never stops by itself
StoringTick ==
    \E t \in progress :
        /\ variant \in {"v1", "adv"}
        /\ UNCHANGED harnessVars
        /\ progress' = (progress \ {t}) \cup {Interval(t.id, "running")}
        /\ progressInterval' = t.id
        /\ lastEvent' = Event("timer", NoResponse, {}, FALSE)
        /\ UNCHANGED <<thinWarning, shownOf,
                       variant, urlValue, btnDisabled, loading, dashboard, started, pending,
                       currentAudit, shown, notification, hideTimers, aiTimers, aiText,
                       firstScores, firstText>>
        /\ UNCHANGED <<streamVars, noteVars, shareVars, completed>>

\* a tick of the interval in the classes whose callback stops it once the bar is
\* full (v2 script.js 622-653, p0 part_000 737-759): the tick that brings the bar
\* to 100, or the tick after it, which clears the interval
CountingTick ==
    \E t \in progress :
        /\ variant \in {"v2", "p0"}
        /\ UNCHANGED harnessVars
        /\ progress' = IF t.at = "running"
                       THEN (progress \ {t}) \cup {Interval(t.id, "full")}
                       ELSE progress \ {t}
        /\ lastEvent' = Event("timer", NoResponse, {}, FALSE)
        /\ UNCHANGED <<thinWarning, shownOf,
                       variant, urlValue, btnDisabled, loading, dashboard, started, pending,
                       currentAudit, shown, notification, hideTimers, aiTimers, aiText,
                       firstScores, firstText>>
        /\ UNCHANGED <<progressInterval, streamVars, noteVars, shareVars, completed>>

\* resetAudit (v1 script.js 273-288, v2 1228-1249), resetAnalysis (adv part_000 541-558)
resetAudit ==
    /\ variant \in {"v1", "v2", "adv"}
    /\ UNCHANGED harnessVars
    /\ urlValue' = "empty"
    /\ dashboard' = FALSE
    /\ btnDisabled' = FALSE
    /\ aiStreamComplete' = FALSE                              \* v2 script.js 1237
    /\ aiTimers' = [i \in 1..Len(aiTimers) |-> [aiTimers[i] EXCEPT !.old = TRUE]]
    /\ typing' = [i \in 1..Len(typing) |-> [typing[i] EXCEPT !.old = TRUE]]
    /\ notification' = Notify("info", "ready")
    /\ StartNoteTimer
    /\ lastEvent' = Event("resetAudit", NoResponse, {"showNotification"}, FALSE)
    /\ UNCHANGED <<thinWarning, shownOf,
                   variant, loading, started, pending, currentAudit, shown, hideTimers,
                   aiText, firstScores, firstText>>
    /\ UNCHANGED <<intervalVars, aiLists, streamOld, shareVars, completed>>

Next ==
    \/ V1_startAudit
    \/ V1_onResponse
    \/ V2_startAudit
    \/ V2_onResponse
    \/ V2_simulateAIResponse
    \/ V2_validateInput
    \/ P0_startAudit
    \/ P0_onResponse
    \/ Adv_startAnalysis
    \/ Adv_onResponse
    \/ Adv_notificationTimerFires
    \/ TypeUrl
    \/ HideTimerFires
    \/ resetAudit

(***************************************************************************)
(* Scoring harness: the scorers applied to every input of the sets above,  *)
(* and a technical record re-scored after one of its signals is improved.  *)
(***************************************************************************)
HarnessIdle ==
    /\ fnKind = "none"
    /\ fnIn = <<>>
    /\ fnOut = 0
    /\ fnPrev = 0
    /\ fnOp = "init"

HarnessInit ==
    /\ fnKind \in {"technical", "content", "authority", "record"}
    /\ fnIn \in CASE fnKind = "technical" -> TechRecs
              [] fnKind = "content" -> ContentRecs
              [] fnKind = "authority" -> AuthorityRecs
              [] fnKind = "record" -> DataRecs
    /\ fnOut = 0
    /\ fnPrev = 0
    /\ fnOp = "init"

Apply(kind, result) ==
    /\ fnKind = kind
    /\ fnOp = "init"
    /\ fnOut' = result
    /\ fnOp' = "scored"
    /\ UNCHANGED <<fnKind, fnIn, fnPrev>>
    /\ UNCHANGED uiVars

ApplyTechnical == Apply("technical", calculateTechnicalScore(fnIn))
ApplyContent == Apply("content", calculateContentScore(fnIn))
ApplyAuthority == Apply("authority", calculateAuthorityScore(fnIn))
ApplyDisplayScores == Apply("record", displayScores(fnIn))

\* the record is changed in one signal and scored again
Rescore(signal, improved) ==
    /\ fnKind = "technical"
    /\ fnOp = "scored"
    /\ fnIn' = improved
    /\ fnPrev' = fnOut
    /\ fnOut' = calculateTechnicalScore(improved)
    /\ fnOp' = signal
    /\ UNCHANGED fnKind
    /\ UNCHANGED uiVars

ImproveVital ==
    \E f \in {"lcp", "cls", "inp"} : \E v \in VitalValues(f) :
        /\ Has(fnIn, "core_web_vitals") /\ Has(fnIn.core_web_vitals, f)
        /\ v < fnIn.core_web_vitals[f]
        /\ Rescore(f, [fnIn EXCEPT !.core_web_vitals[f] = v])

ImproveMobile ==
    /\ Has(fnIn, "mobile_friendly") /\ ~fnIn.mobile_friendly
    /\ Rescore("mobile_friendly", [fnIn EXCEPT !.mobile_friendly = TRUE])

ImproveSsl ==
    /\ Has(fnIn, "ssl_grade") /\ fnIn.ssl_grade # "A"
    /\ Rescore("ssl_grade", [fnIn EXCEPT !.ssl_grade = "A"])

RemoveCanonicalIssue ==
    /\ Has(fnIn, "canonical_issues") /\ Len(fnIn.canonical_issues) > 0
    /\ Rescore("canonical_issues", [fnIn EXCEPT !.canonical_issues = Tail(@)])

ScoreNext ==
    \/ ApplyTechnical
    \/ ApplyContent
    \/ ApplyAuthority
    \/ ApplyDisplayScores
    \/ ImproveVital
    \/ ImproveMobile
    \/ ImproveSsl
    \/ RemoveCanonicalIssue

(***************************************************************************)
(* Rule harness: the display path, the extractors and the classifiers      *)
(* applied to every input of the sets below.                               *)
(***************************************************************************)
\* the JavaScript value null: not a record, reading a property of it throws
Null == [null |-> TRUE]

Returned == [threw |-> FALSE, error |-> "none"]
Thrown(error) == [threw |-> TRUE, error |-> error]

\* script.js 720-738: displayScores reads data.technical first
V2_evaluate(data) == IF data = Null THEN Thrown("TypeError") ELSE Returned

\* part_000 765-841: displayResults reads data.technical (772), then
\* data.technical.core_web_vitals (784), data.content.word_count (800) and
\* data.authority.authority_score (825)
P0_evaluate(data) ==
    IF data = Null THEN Thrown("TypeError")
    ELSE IF P0_displayThrows(data) THEN Thrown("TypeError")
    ELSE Returned

EvaluateInputs == {Null} \cup UIData

ApplyV2Evaluate == Apply("evaluate_v2", V2_evaluate(fnIn))
ApplyP0Evaluate == Apply("evaluate_p0", P0_evaluate(fnIn))

\* everything the page derives from one document
Evaluate(data) ==
    [scores |-> displayScores(data), narrative |-> generateAIAnalysis(data),
     fixes |-> techFixes(data), opportunities |-> contentOpps(data)]

\* the value the normalizer gives to a field that is missing
FieldDefaults ==
    [technical |-> [core_web_vitals |-> <<>>, mobile_friendly |-> FALSE, ssl_grade |-> "F",
                    canonical_issues |-> <<>>],
     content |-> [word_count |-> 0, readability_score |-> 0, entity_salience |-> <<>>,
                  thin_content_risk |-> FALSE],
     authority |-> [authority_score |-> 0, backlinks |-> 0, e_e_a_t_score |-> 0,
                    link_toxicity_risk |-> "low"]]
VitalDefaults == [lcp |-> 0, cls |-> 0, inp |-> 0]

ApplyEvaluate == Apply("document", Evaluate(fnIn))

\* the document is given the default of one missing field and evaluated again
Reevaluate(field, defaulted) ==
    /\ fnKind = "document"
    /\ fnOp = "scored"
    /\ fnIn' = defaulted
    /\ fnPrev' = fnOut
    /\ fnOut' = Evaluate(defaulted)
    /\ fnOp' = field
    /\ UNCHANGED fnKind
    /\ UNCHANGED uiVars

DefaultSubRecord ==
    \E sub \in DOMAIN FieldDefaults :
        /\ fnKind = "document"
        /\ ~Has(fnIn, sub)
        /\ Reevaluate(sub, fnIn @@ (sub :> <<>>))

DefaultField ==
    \E sub \in DOMAIN FieldDefaults : \E field \in DOMAIN FieldDefaults[sub] :
        /\ fnKind = "document"
        /\ Has(fnIn, sub) /\ ~Has(fnIn[sub], field)
        /\ Reevaluate(field,
                      [fnIn EXCEPT ![sub] = @ @@ (field :> FieldDefaults[sub][field])])

DefaultVital ==
    \E field \in DOMAIN VitalDefaults :
        /\ fnKind = "document"
        /\ Has(fnIn, "technical") /\ Has(fnIn.technical, "core_web_vitals")
        /\ ~Has(fnIn.technical.core_web_vitals, field)
        /\ Reevaluate(field,
                      [fnIn EXCEPT !.technical.core_web_vitals =
                                       @ @@ (field :> VitalDefaults[field])])

(***************************************************************************)
(* AdvancedSEOAnalyzer: the technical issues, part_000 309-377.  The text  *)
(* of the status is written without its emoji: "(ok)" and "(!)".           *)
(***************************************************************************)
RedirectLimit == 2
CountedRedirectLimit == 2    \* redirect_chain_length above this counts as an opportunity
IndexabilityLimit == 3
UrlLengthLimit == 100

\* technical.redirect_chain_length > 3 (a missing length compares false)
BreaksIndexabilityAtWarning(technical) ==
    Exceeds(technical, "redirect_chain_length", RedirectLimit)
BreaksIndexability(technical) ==
    Exceeds(technical, "redirect_chain_length", IndexabilityLimit)

\* technical.x_robots_tag && technical.x_robots_tag.includes('noindex')
HasNoindex(technical) ==
    Has(technical, "x_robots_tag") /\ technical.x_robots_tag \in {"noindex", "noindex, nofollow"}

extractTechnicalIssues(technical) ==
    Line(~Truthy(technical, "robots_txt_present"), "Missing robots.txt file")
    \o Line(~Truthy(technical, "sitemap_present"), "No XML sitemap found")
    \o Line(~Truthy(technical, "canonical_present"), "Missing canonical tags")
    \o (IF Exceeds(technical, "redirect_chain_length", RedirectLimit)
        THEN <<"Redirect chain too long (" \o ToString(technical.redirect_chain_length)
               \o " redirects)">>
        ELSE <<>>)
    \o Line(Exceeds(technical, "url_length", UrlLengthLimit), "URL is too long")

\* getIndexabilityStatus of a technical record that is present
getIndexabilityStatus(technical) ==
    LET issues == Line(HasNoindex(technical), "noindex")
                  \o Line(BreaksIndexability(technical), "Redirect chain")
    IN  IF Len(issues) = 0 THEN "(ok) Indexable"
        ELSE IF Len(issues) = 1 THEN "(!) " \o issues[1]
        ELSE "(!) " \o issues[1] \o ", " \o issues[2]

AdvTechnicalRecs ==
    { r @@ m @@ c @@ l @@ u @@ x :
        r \in Opt("robots_txt_present", BOOLEAN),
        m \in Opt("sitemap_present", BOOLEAN),
        c \in Opt("canonical_present", BOOLEAN),
        l \in Opt("redirect_chain_length", {0, 2, 3, 4}),
        u \in Opt("url_length", {100, 101}),
        x \in Opt("x_robots_tag", {"all", "noindex, nofollow"}) }

ApplyTechnicalIssues ==
    Apply("technical_issues",
          [issues |-> extractTechnicalIssues(fnIn),
           indexability |-> getIndexabilityStatus(fnIn)])

\* countTechnicalOpportunities, part_000 498-505
countTechnicalOpportunities(technical) ==
    (IF ~Truthy(technical, "robots_txt_present") THEN 1 ELSE 0)
    + (IF ~Truthy(technical, "sitemap_present") THEN 1 ELSE 0)
    + (IF ~Truthy(technical, "canonical_present") THEN 1 ELSE 0)
    + (IF Exceeds(technical, "redirect_chain_length", CountedRedirectLimit) THEN 1 ELSE 0)

ApplyTechnicalCount ==
    Apply("technical_count",
          [count |-> countTechnicalOpportunities(fnIn),
           issues |-> extractTechnicalIssues(fnIn)])

(***************************************************************************)
(* AdvancedSEOAnalyzer: the issue and recommendation lists, part_000       *)
(* 323-391.  A list is the sequence of the texts of its <li> items.        *)
(***************************************************************************)
CriticalIssuesShown == 5
ContentRecommendationsShown == 3
HighPriorityShown == 5

\* items.slice(0, n)
sliceLast(items, n) ==
    [i \in 1..Min(n, Len(items)) |-> items[Len(items) - Min(n, Len(items)) + i]]
slice(items, n) == [i \in 1..Min(n, Len(items)) |-> items[i]]

\* populateList on a list that was just cleared
populateList(items) == IF Len(items) = 0 THEN <<"No items found">> ELSE items

\* displayIssuesAndRecommendations: the four lists, cleared and then filled
displayIssuesAndRecommendations(data) ==
    LET recs == ObjOrEmpty(data, "recommendations")
    IN  [technicalIssues |->
            IF Has(data, "technical")
            THEN populateList(extractTechnicalIssues(data.technical)) ELSE <<>>,
         criticalIssues |->
            IF Has(data, "insights") /\ Len(data.insights) > 0
            THEN populateList(slice(data.insights, CriticalIssuesShown)) ELSE <<>>,
         contentRecommendations |->
            IF Has(recs, "priority_high")
            THEN populateList(slice(recs.priority_high, ContentRecommendationsShown))
            ELSE <<>>,
         highPriorityRecs |->
            IF Has(recs, "priority_high")
            THEN populateList(slice(recs.priority_high, HighPriorityShown)) ELSE <<>>]

\* the lists of the server: n distinct items, in the order the server ranked them
Items(name, n) == [i \in 1..n |-> name \o " " \o ToString(i)]
ThinContentInsight == "Thin content: the page needs more depth"

AnalysisRecs ==
    { t @@ c @@ i @@ r :
        t \in Opt("technical",
                  { <<>>,
                    [robots_txt_present |-> FALSE, sitemap_present |-> FALSE,
                     canonical_present |-> TRUE],
                    [robots_txt_present |-> TRUE, sitemap_present |-> TRUE,
                     canonical_present |-> TRUE, redirect_chain_length |-> 4,
                     url_length |-> 101] }),
        c \in Opt("content", {[thin_content_risk |-> TRUE, thin_content |-> TRUE]}),
        i \in Opt("insights",
                  {Items("insight", n) : n \in 0..MaxItems} \cup {<<ThinContentInsight>>}),
        r \in Opt("recommendations",
                  {<<>>} \cup {[priority_high |-> Items("fix", n)] : n \in 0..MaxItems}) }

ApplyIssuesAndRecommendations ==
    Apply("analysis", displayIssuesAndRecommendations(fnIn))

(***************************************************************************)
(* The classifiers of a score.  applyScoreColor is given scores in tenths  *)
(* of a point (the authority score may be fractional); getScoreStatus and  *)
(* the score cards of AdvancedSEOAnalyzer are given the whole points of    *)
(* the server.                                                             *)
(***************************************************************************)
GreenLimit == 80
YellowLimit == 60
ExcellentLimit == 90
GoodLimit == 70
FairLimit == 50

\* script.js 260-271, first SEOVisionPro
V1_applyScoreColor(score) ==
    IF score >= Pts(GreenLimit) THEN "#00ff9d"
    ELSE IF score >= Pts(YellowLimit) THEN "#ffd700"
    ELSE "#ff4444"

\* script.js 759-770, second SEOVisionPro
applyScoreColor(score) ==
    IF score >= Pts(GreenLimit) THEN "#00ff9d"
    ELSE IF score >= Pts(YellowLimit) THEN "#ffd700"
    ELSE "#ff4444"

\* part_000 263-267, AdvancedSEOAnalyzer
getScoreColorAbove(score) ==
    IF score > Pts(GreenLimit) THEN "#10b981"
    ELSE IF score > Pts(YellowLimit) THEN "#f59e0b"
    ELSE "#ef4444"
getScoreColor(score) ==
    IF score >= Pts(GreenLimit) THEN "#10b981"
    ELSE IF score >= Pts(YellowLimit) THEN "#f59e0b"
    ELSE "#ef4444"

\* part_000 256-261, on a score in whole points
getScoreStatus(score) ==
    IF score >= ExcellentLimit THEN [class |-> "status-excellent", label |-> "Excellent"]
    ELSE IF score >= GoodLimit THEN [class |-> "status-good", label |-> "Good"]
    ELSE IF score >= FairLimit THEN [class |-> "status-good", label |-> "Fair"]
    ELSE [class |-> "status-poor", label |-> "Needs Work"]

\* part_000 226-235: the categories of the score cards and their declared weights,
\* in hundredths
scoreCategories ==
    << [key |-> "overall", weight |-> 100], [key |-> "technical", weight |-> 20],
       [key |-> "content", weight |-> 20], [key |-> "performance", weight |-> 15],
       [key |-> "security", weight |-> 10], [key |-> "authority", weight |-> 10],
       [key |-> "social", weight |-> 10], [key |-> "structure", weight |-> 5] >>

\* part_000 222-254, displayScores(scores): one card per category
Adv_displayScores(scores) ==
    [i \in 1..Len(scoreCategories) |->
        LET key == scoreCategories[i].key
            score == NumOrZero(scores, key)
        IN  [key |-> key, value |-> score, status |-> getScoreStatus(score),
             color |-> getScoreColor(Pts(score))]]

ScoreTenths == 0..Pts(100)
ScorePoints == 0..100

\* the scores of the server, each category present or not
AdvScores ==
    { o @@ t @@ c @@ p @@ s @@ a @@ m @@ r :
        o \in Opt("overall", {72}), t \in Opt("technical", {80}),
        c \in Opt("content", {65}), p \in Opt("performance", {90}),
        s \in Opt("security", {55}), a \in Opt("authority", {70}),
        m \in Opt("social", {40}), r \in Opt("structure", {0, 95}) }

ApplyScoreColor ==
    Apply("score_color",
          [v1 |-> V1_applyScoreColor(fnIn), v2 |-> applyScoreColor(fnIn),
           adv |-> getScoreColor(fnIn)])
ApplyScoreStatus == Apply("score_status", getScoreStatus(fnIn))
ApplyAdvDisplayScores == Apply("score_cards", Adv_displayScores(fnIn))

(***************************************************************************)
(* The narrative applied to records in which every field that a rule of    *)
(* generateAIAnalysis reads is absent, below, at or above its threshold.   *)
(***************************************************************************)
NarrativeRecs ==
    { t @@ c @@ a :
        t \in Opt("technical",
                  { v @@ m :
                      v \in Opt("core_web_vitals",
                                { l @@ s : l \in Opt("lcp", {LcpLimit, LcpLimit + 1}),
                                          s \in Opt("cls", {ClsLimit, ClsLimit + 1}) }),
                      m \in Opt("mobile_friendly", BOOLEAN) }),
        c \in Opt("content",
                  { k @@ w : k \in Opt("thin_content_risk", BOOLEAN),
                            w \in Opt("word_count", {0, 299, 300}) }),
        a \in Opt("authority", Opt("authority_score", {0, 35, 40})) }

ApplyNarrative == Apply("narrative", generateAIAnalysis(fnIn))

(***************************************************************************)
(* The structure health of the second SEOVisionPro, script.js 1011-1031.   *)
(* site_structure_health is held in tenths of a point.                     *)
(***************************************************************************)
\* Math.round(x) for x in tenths: the nearest whole number, halves up
RoundTenths(tenths) == (tenths + 5) \div 10

\* what displayInternalMetrics writes to #structureHealth and #structureDesc
displayInternalMetrics(internal) ==
    LET healthScore == NumOrZero(internal, "site_structure_health")
    IN  [value |-> RoundTenths(healthScore),
         color |-> IF healthScore >= Pts(GreenLimit) THEN "#00ff9d"
                   ELSE IF healthScore >= Pts(YellowLimit) THEN "#ffd700"
                   ELSE "#ff4444",
         desc |-> IF healthScore >= Pts(GreenLimit) THEN "Excellent site structure"
                  ELSE IF healthScore >= Pts(YellowLimit) THEN "Good structure"
                  ELSE "Needs improvement"]

InternalRecs ==
    Opt("site_structure_health",
        {Pts(-5), 0, 5, Pts(59), Pts(60), Pts(80), Pts(82), Pts(100), Pts(120)})

ApplyInternalMetrics == Apply("structure", displayInternalMetrics(fnIn))

\* typeWriter (script.js 1108-1116), one call: what it writes to the element, the
\* timeout it sets and whether it calls back.  A text is a sequence of characters and
\* innerHTML is the string assigned: the revealed part and whether the cursor span
\* follows it.
typeWriterKeepsCursor(text, i) ==
    IF i < Len(text)
    THEN [innerHTML |-> [text |-> SubSeq(text, 1, i + 1), cursor |-> TRUE],
          timeout |-> [set |-> TRUE, i |-> i + 1], callback |-> FALSE]
    ELSE [innerHTML |-> [text |-> text, cursor |-> TRUE],
          timeout |-> Nothing, callback |-> TRUE]

typeWriter(text, i) ==
    IF i < Len(text)
    THEN [innerHTML |-> [text |-> SubSeq(text, 1, i + 1), cursor |-> TRUE],
          timeout |-> [set |-> TRUE, i |-> i + 1], callback |-> FALSE]
    ELSE [innerHTML |-> [text |-> text, cursor |-> FALSE],
          timeout |-> Nothing, callback |-> TRUE]

Texts == UNION {[1..n -> {"a", "b"}] : n \in 0..MaxText}

StreamDocs == {d \in BriefBodies("v2") : HasAllThree(d)}

TypeInputs == [text : Texts, data : StreamDocs]

\* #streamingText as simulateAIResponse creates it, before typeWriter is called
TypeHarnessInit ==
    /\ fnKind = "typeWriter"
    /\ fnIn \in TypeInputs
    /\ fnOut = [text |-> <<>>, cursor |-> FALSE]
    /\ fnPrev = [timeout |-> Nothing, callbacks |-> 0]
    /\ fnOp = "init"

\* one call of typeWriter with the callback simulateAIResponse passes (1101-1105):
\* populateAICategories(data), then aiStreamComplete = true
TypeWriterCall(i) ==
    LET call == typeWriter(fnIn.text, i)
    IN  /\ fnOut' = call.innerHTML
        /\ fnPrev' = [timeout |-> call.timeout,
                      callbacks |-> fnPrev.callbacks + (IF call.callback THEN 1 ELSE 0)]
        /\ fnOp' = IF call.timeout.set THEN "typing" ELSE "done"
        /\ IF call.callback
           THEN /\ aiLists' = populateAICategories(aiLists, fnIn.data)
                /\ aiStreamComplete' = TRUE
           ELSE UNCHANGED <<aiLists, aiStreamComplete>>
        /\ UNCHANGED <<fnKind, fnIn, typing, streamOld>>
        /\ UNCHANGED <<thinWarning, shownOf, lastEvent,
                       variant, urlValue, btnDisabled, loading, dashboard, started, pending,
                       currentAudit, shown, notification, hideTimers, aiTimers, aiText,
                       firstScores, firstText>>
        /\ UNCHANGED <<intervalVars, noteVars, shareVars, completed>>

\* simulateAIResponse calls typeWriter(textElement, analysisText, 0, callback)
TypeWriterStarts ==
    /\ fnKind = "typeWriter"
    /\ fnOp = "init"
    /\ TypeWriterCall(0)

\* the 30 ms timeout calls typeWriter(element, text, i + 1, callback)
TypeWriterTimeout ==
    /\ fnKind = "typeWriter"
    /\ fnOp = "typing"
    /\ TypeWriterCall(fnPrev.timeout.i)


(***************************************************************************)
(* Specifications.                                                         *)
(***************************************************************************)
Init == (\E v \in Variants : PageInit(v)) /\ HarnessIdle

Spec == Init /\ [][Next]_vars

ScoreInit == PageInit("v2") /\ HarnessInit

ScoreSpec == ScoreInit /\ [][ScoreNext]_vars

RuleInputs(kind) ==
    CASE kind \in {"evaluate_v2", "evaluate_p0"} -> EvaluateInputs
      [] kind = "document" -> DataRecs
      [] kind \in {"technical_issues", "technical_count"} -> AdvTechnicalRecs
      [] kind = "analysis" -> AnalysisRecs
      [] kind = "score_color" -> ScoreTenths
      [] kind = "score_status" -> ScorePoints
      [] kind = "score_cards" -> AdvScores
      [] kind = "narrative" -> NarrativeRecs
      [] kind = "structure" -> InternalRecs

RuleKinds ==
    {"evaluate_v2", "evaluate_p0", "document", "technical_issues", "analysis", "score_color",
     "score_status", "score_cards", "narrative",
     "structure", "technical_count"}

RuleHarnessInit ==
    /\ fnKind \in RuleKinds
    /\ fnIn \in RuleInputs(fnKind)
    /\ fnOut = 0
    /\ fnPrev = 0
    /\ fnOp = "init"

RuleInit == PageInit("adv") /\ RuleHarnessInit

RuleNext ==
    \/ ApplyV2Evaluate
    \/ ApplyP0Evaluate
    \/ ApplyEvaluate
    \/ DefaultSubRecord
    \/ DefaultField
    \/ DefaultVital
    \/ ApplyTechnicalIssues
    \/ ApplyIssuesAndRecommendations
    \/ ApplyScoreColor
    \/ ApplyScoreStatus
    \/ ApplyAdvDisplayScores
    \/ ApplyNarrative
    \/ ApplyInternalMetrics
    \/ ApplyTechnicalCount

RuleSpec == RuleInit /\ [][RuleNext]_vars

\* the page with its timers, on the answers of a brief endpoint
TimerNext ==
    \/ V1_startAudit
    \/ V1_onAnswer
    \/ V2_startAudit
    \/ V2_onAnswer
    \/ V2_simulateAIResponse
    \/ V2_typeWriterEnds
    \/ V2_validateInput
    \/ P0_startAudit
    \/ P0_onAnswer
    \/ Adv_startAnalysis
    \/ Adv_onAnswer
    \/ Adv_notificationTimerFires
    \/ TypeUrl
    \/ HideTimerFires
    \/ StoringTick
    \/ CountingTick
    \/ resetAudit

TimerSpec == Init /\ [][TimerNext]_vars

\* the page with its share and export buttons, on the answers of a brief endpoint
ShareNext ==
    \/ V1_startAudit
    \/ V1_onAnswer
    \/ V2_startAudit
    \/ V2_onAnswer
    \/ V2_validateInput
    \/ V2_shareReport
    \/ P0_startAudit
    \/ P0_onAnswer
    \/ Adv_startAnalysis
    \/ Adv_onAnswer
    \/ Adv_notificationTimerFires
    \/ Adv_exportReport
    \/ Adv_shareResults
    \/ TypeUrl
    \/ HideTimerFires
    \/ resetAudit

ShareSpec == Init /\ [][ShareNext]_vars

\* the page whose requests are answered and whose timeouts fire.  A pending fetch
\* settles and a pending timeout runs; the handler of AdvancedSEOAnalyzer's answer
\* is held back only while MaxNotifications timers are pending, hence its strong
\* fairness.
LoadNext ==
    \/ V1_startAudit
    \/ V1_onAnswer
    \/ V2_startAudit
    \/ V2_onAnswer
    \/ V2_validateInput
    \/ P0_startAudit
    \/ P0_onAnswer
    \/ Adv_startAnalysis
    \/ Adv_onAnswer
    \/ Adv_notificationTimerFires
    \/ TypeUrl
    \/ HideTimerFires
    \/ resetAudit

LiveSpec ==
    /\ Init
    /\ [][LoadNext]_vars
    /\ WF_vars(V1_onAnswer)
    /\ WF_vars(V2_onAnswer)
    /\ WF_vars(P0_onAnswer)
    /\ SF_vars(Adv_onAnswer)
    /\ WF_vars(Adv_notificationTimerFires)
    /\ WF_vars(HideTimerFires)

\* typeWriter under the callback of simulateAIResponse; a pending timeout runs
TypeInit == PageInit("v2") /\ TypeHarnessInit

TypeNext ==
    \/ TypeWriterStarts
    \/ TypeWriterTimeout

TypeSpec ==
    /\ TypeInit
    /\ [][TypeNext]_vars
    /\ WF_vars(TypeWriterStarts)
    /\ WF_vars(TypeWriterTimeout)

(***************************************************************************)
(* Properties.                                                             *)
(***************************************************************************)
Scored == fnOp # "init"
InPoints(score) == score \in 0..Pts(100)

\* C1: every value returned by calculateTechnicalScore, calculateContentScore and
\* calculateAuthorityScore lies in [0,100], and so does the overall score that
\* displayScores computes from them.
C1_ScoresInRange ==
    Scored =>
        IF fnKind = "record"
        THEN /\ InPoints(fnOut.tech) /\ InPoints(fnOut.content) /\ InPoints(fnOut.authority)
             /\ fnOut.overall \in 0..100
        ELSE InPoints(fnOut)

\* a record whose technical score is held at 0 and whose authority score is held at 100
C1_Witness ==
    /\ fnKind = "record" /\ Scored
    /\ Has(fnIn, "technical") /\ fnIn.technical = BrokenTechnical
    /\ Has(fnIn, "authority") /\ fnIn.authority = DemoAuthority
    /\ fnOut.tech = 0 /\ fnOut.authority = Pts(100)

\* C2: a technical record re-scored after one signal was improved (lcp, cls or inp
\* lowered to a value >= 0, mobile_friendly false -> true, ssl_grade changed to "A", a
\* canonical issue removed) never scores less than before.
C2_Monotone ==
    (fnKind = "technical" /\ fnOp \notin {"init", "scored"}) => fnOut >= fnPrev

Bonus(cond, points) == IF cond THEN points ELSE 0
Clamp100(points) == IF points < 0 THEN 0 ELSE IF points > 100 THEN 100 ELSE points

\* the rule table of the technical scorer, given which vitals earn their bonus
TechnicalTable(tech, lcpGood, clsGood, inpGood) ==
    Clamp100(50 + Bonus(lcpGood, 15) + Bonus(clsGood, 15) + Bonus(inpGood, 10)
             + Bonus(Has(tech, "mobile_friendly") /\ tech.mobile_friendly, 10)
             + Bonus(Has(tech, "ssl_grade") /\ tech.ssl_grade = "A", 10)
             - 5 * (IF Has(tech, "canonical_issues") THEN Len(tech.canonical_issues) ELSE 0))

VitalsOf(tech) == IF Has(tech, "core_web_vitals") THEN tech.core_web_vitals ELSE <<>>
DefaultZero(vitals, f) == IF Has(vitals, f) THEN vitals[f] ELSE 0

\* C5: calculateTechnicalScore is the rule table in which an absent lcp, cls
\* or inp is first defaulted to 0 (and so earns its bonus, like a value of 0).
C5_TableWithZeroDefaults ==
    (fnKind = "technical" /\ Scored) =>
        fnOut = 10 * TechnicalTable(fnIn,
                                    DefaultZero(VitalsOf(fnIn), "lcp") <= 2500,
                                    DefaultZero(VitalsOf(fnIn), "cls") <= 100,
                                    DefaultZero(VitalsOf(fnIn), "inp") <= 200)

FieldOr(r, f, default) == IF Has(r, f) THEN r[f] ELSE default
Tier4(x, a, b, c, d) ==
    CASE x >= a -> 20 [] x < a /\ x >= b -> 15 [] x < b /\ x >= c -> 10
      [] x < c /\ x >= d -> 5 [] OTHER -> 0
KeyCount(content) ==
    IF Has(content, "entity_salience") THEN Cardinality(DOMAIN content.entity_salience) ELSE 0

\* C6: calculateContentScore is clamp(50 + wordTier + readabilityTier + entityTier
\* - [20 if thin_content_risk], 0, 100), one tier per signal.
C6_ContentTable ==
    (fnKind = "content" /\ Scored) =>
        LET words == FieldOr(fnIn, "word_count", 0)
            readability == FieldOr(fnIn, "readability_score", 0)
            keys == KeyCount(fnIn)
            wordTier == Tier4(words, 1000, 500, 300, 150)
            readabilityTier == CASE readability >= 60 -> 15
                                 [] readability < 60 /\ readability >= 40 -> 10
                                 [] OTHER -> 0
            entityTier == CASE keys >= 10 -> 15
                            [] keys < 10 /\ keys >= 5 -> 10
                            [] keys < 5 /\ keys >= 3 -> 5
                            [] OTHER -> 0
        IN  fnOut = 10 * Clamp100(50 + wordTier + readabilityTier + entityTier
                                  - Bonus(FieldOr(fnIn, "thin_content_risk", FALSE), 20))

\* a thin page of 1000 words, readability 60 and 10 entities: 50 + 20 + 15 + 15 - 20
C6_Witness ==
    /\ fnKind = "content" /\ Scored
    /\ Has(fnIn, "word_count") /\ fnIn.word_count = 1000
    /\ Has(fnIn, "readability_score") /\ fnIn.readability_score = 60
    /\ KeyCount(fnIn) = 10
    /\ Has(fnIn, "thin_content_risk") /\ fnIn.thin_content_risk
    /\ fnOut = Pts(80)

\* C7: calculateAuthorityScore is clamp(50 + min(30, authority_score * 3) + backlinkTier
\* + e_e_a_t_score * 5 - toxicityPenalty, 0, 100); scores are read in tenths, so the sum
\* is formed in tenths of a point.
C7_AuthorityTable ==
    (fnKind = "authority" /\ Scored) =>
        LET a == FieldOr(fnIn, "authority_score", 0)
            e == FieldOr(fnIn, "e_e_a_t_score", 0)
            risk == FieldOr(fnIn, "link_toxicity_risk", "low")
            capped == IF 3 * a > 300 THEN 300 ELSE 3 * a
            backlinkTier == Tier4(FieldOr(fnIn, "backlinks", 0), 100, 50, 20, 10)
            penalty == CASE risk = "high" -> 20 [] risk = "medium" -> 10 [] OTHER -> 0
            sum == 500 + capped + 10 * backlinkTier + 5 * e - 10 * penalty
        IN  fnOut = IF sum < 0 THEN 0 ELSE IF sum > 1000 THEN 1000 ELSE sum

\* authority 1.5, exactly 50 backlinks, E-E-A-T 2.0, medium toxicity:
\* 50 + 4.5 + 15 + 10 - 10 = 69.5
C7_Witness ==
    /\ fnKind = "authority" /\ Scored
    /\ Has(fnIn, "authority_score") /\ fnIn.authority_score = 15
    /\ Has(fnIn, "backlinks") /\ fnIn.backlinks = 50
    /\ Has(fnIn, "e_e_a_t_score") /\ fnIn.e_e_a_t_score = 20
    /\ Has(fnIn, "link_toxicity_risk") /\ fnIn.link_toxicity_risk = "medium"
    /\ fnOut = 695

\* C8: every category score is a whole number (no tenths of a point left over).
C8_WholeNumber ==
    (fnKind \in {"technical", "content", "authority"} /\ Scored) => fnOut % 10 = 0

\* the handler that ran last was the rest of startAudit / startAnalysis for a response
Answered == lastEvent.resp.kind # "none"

\* the response brought a document that the page goes on to score
ScoredDocument ==
    /\ variant \in {"v2", "p0"}
    /\ Answered /\ lastEvent.resp.ok /\ lastEvent.resp.parsable

Baseline(category, card) ==
    Has(lastEvent.resp.body, category) \/ card = Pts(50)

\* C3: scoring a document in which some or all of technical, content and authority are
\* absent does not throw, and every absent category scores exactly the baseline 50, in
\* displayScores of script.js and in displayResults of part_000.
C3_DefaultSafe ==
    (ScoredDocument /\ ~HasAllThree(lastEvent.resp.body)) =>
        /\ ~lastEvent.threw
        /\ shown.set
        /\ Baseline("technical", shown.tech)
        /\ Baseline("content", shown.content)
        /\ Baseline("authority", shown.authority)

CardSum == shown.tech + shown.content + shown.authority

\* C9: the overall score displayed is round((technical + content + authority) / 3) of
\* the three category scores displayed with it, which are those of the document of the
\* audit, in displayScores of script.js and in displayResults of part_000.
C9_OverallIsRoundedMean ==
    (variant \in {"v2", "p0"} /\ shown.set) =>
        /\ 30 * shown.overall - 15 <= CardSum
        /\ CardSum < 30 * shown.overall + 15
        /\ currentAudit.set
        /\ LET data == currentAudit.data
           IN  /\ shown.tech = calculateTechnicalScore(ObjOrEmpty(data, "technical"))
               /\ shown.content = calculateContentScore(ObjOrEmpty(data, "content"))
               /\ shown.authority = calculateAuthorityScore(ObjOrEmpty(data, "authority"))

\* a mean with a fraction of at least one half, which is rounded up
C9_Witness ==
    /\ variant = "v2" /\ shown.set
    /\ 30 * shown.overall > CardSum
    /\ shown.authority % 10 # 0

\* fetch rejected, response not ok, or a body that carries an error field
TransportFailure(resp) ==
    \/ resp.kind = "reject"
    \/ resp.kind = "http" /\ ~resp.ok
    \/ resp.kind = "http" /\ resp.parsable /\ Has(resp.body, "error")

\* C10: when the fetch rejects, the response is not ok or the body carries an error
\* field, no display function and no scorer is invoked for that audit: the handler
\* only shows an error notification and calls hideLoading.
C10_FailureNeverScored ==
    (Answered /\ TransportFailure(lastEvent.resp)) =>
        /\ lastEvent.calls \cap (DisplayCalls \cup ScoreCalls) = {}
        /\ lastEvent.calls = CatchCalls
        /\ notification.type = "error"

\* the document of the response that the last handler displayed to its end
DisplayedDocument == lastEvent.resp.body

\* what a page shows for a document when it is the first and only audit
FreshCards(data) == Cards(IF variant = "p0" THEN P0_scores(data) ELSE displayScores(data))
FreshThinWarning(data) == Truthy(ObjOrEmpty(data, "content"), "thin_content_risk")

\* C11: nothing is carried over from one audit to the next: once a document has been
\* displayed, the score cards and the thin-content warning are those the page would
\* show had this audit been the first and only one; a thin document followed by one
\* that is not thin leaves the warning hidden.
C11_NoStateBetweenAudits ==
    (ScoredDocument /\ ~lastEvent.threw) =>
        /\ shown = FreshCards(DisplayedDocument)
        /\ thinWarning = FreshThinWarning(DisplayedDocument)

\* C12: with two audits in flight, whatever the order of the responses, the response
\* on display never gives way to the response of an audit started earlier, so that the
\* result left on the dashboard is that of the most recently started audit.
C12_LatestAuditWins == [][shownOf' >= shownOf]_vars

\* C13: a null input is the only one that makes the scoring and display path throw,
\* and what it throws is an InvalidInputError; no record, however partial, throws.
C13_OnlyNullThrows ==
    (fnKind \in {"evaluate_v2", "evaluate_p0"} /\ Scored) =>
        /\ fnOut.threw <=> (fnIn = Null)
        /\ fnOut.threw => fnOut.error = "InvalidInputError"

\* C14: a document evaluated with an optional field missing gives the same scores, the
\* same narrative and the same AI lists as the document evaluated with that field set to
\* its default.
C14_AbsentEqualsDefault ==
    (fnKind = "document" /\ fnOp \notin {"init", "scored"}) => fnOut = fnPrev

Missing(technical, field) == ~(Has(technical, field) /\ technical[field] = TRUE)
NumberOver(technical, field, limit) == Has(technical, field) /\ technical[field] > limit

\* the issues of the rule table, in its order: robots.txt, sitemap, canonical, redirect
\* chain, URL length
TechnicalRuleTable(technical) ==
    (IF Missing(technical, "robots_txt_present") THEN <<"robots">> ELSE <<>>)
    \o (IF Missing(technical, "sitemap_present") THEN <<"sitemap">> ELSE <<>>)
    \o (IF Missing(technical, "canonical_present") THEN <<"canonical">> ELSE <<>>)
    \o (IF NumberOver(technical, "redirect_chain_length", 2) THEN <<"redirect">> ELSE <<>>)
    \o (IF NumberOver(technical, "url_length", 100) THEN <<"url">> ELSE <<>>)

RuleOf(message) ==
    CASE message = "Missing robots.txt file" -> "robots"
      [] message = "No XML sitemap found" -> "sitemap"
      [] message = "Missing canonical tags" -> "canonical"
      [] message = "URL is too long" -> "url"
      [] message \in {"Redirect chain too long (3 redirects)",
                      "Redirect chain too long (4 redirects)",
                      "Redirect chain too long (5 redirects)"} -> "redirect"
      [] OTHER -> "other"

ReportsRedirectChain(status) ==
    status \in {"(!) Redirect chain", "(!) noindex, Redirect chain"}

\* C16: extractTechnicalIssues emits exactly the issues of the rule table whose predicate
\* holds, in the order of the table, and getIndexabilityStatus reports a redirect-chain
\* problem exactly when redirect_chain_length exceeds 3 (a length of 3 is only an issue).
C16_TechnicalRules ==
    (fnKind = "technical_issues" /\ Scored) =>
        /\ [i \in 1..Len(fnOut.issues) |-> RuleOf(fnOut.issues[i])] = TechnicalRuleTable(fnIn)
        /\ ReportsRedirectChain(fnOut.indexability)
           <=> NumberOver(fnIn, "redirect_chain_length", 3)

\* a chain of exactly 3 redirects on an over-long URL: two issues, still indexable
C16_Witness ==
    /\ fnKind = "technical_issues" /\ Scored
    /\ Has(fnIn, "redirect_chain_length") /\ fnIn.redirect_chain_length = 3
    /\ fnOut.issues = <<"Redirect chain too long (3 redirects)", "URL is too long">>
    /\ fnOut.indexability = "(ok) Indexable"

\* the issues on the page, in the order the page lists them: the technical issues,
\* then the critical issues (the placeholder of an empty list is not an issue)
IssuesOnPage(lists) ==
    SelectSeq(lists.technicalIssues \o lists.criticalIssues,
              LAMBDA item : item # "No items found")

\* severity of an issue: 1 critical, 2 warning, 3 info
SeverityRank(lists, item) ==
    IF \E i \in 1..Len(lists.criticalIssues) : lists.criticalIssues[i] = item THEN 1
    ELSE IF RuleOf(item) = "url" THEN 3
    ELSE 2

\* C15: the issues are listed critical first, then warnings, then info; and when
\* robots.txt and the sitemap are missing and the content is thin, the thin-content
\* issue is listed, before both technical warnings.
C15_IssueOrdering ==
    (fnKind = "analysis" /\ Scored) =>
        LET issues == IssuesOnPage(fnOut)
        IN  /\ \A i, j \in 1..Len(issues) :
                  i < j => SeverityRank(fnOut, issues[i]) <= SeverityRank(fnOut, issues[j])
            /\ (/\ Has(fnIn, "technical")
                /\ Missing(fnIn.technical, "robots_txt_present")
                /\ Missing(fnIn.technical, "sitemap_present")
                /\ Has(fnIn, "content") /\ Truthy(fnIn.content, "thin_content_risk"))
               => \E i \in 1..Len(issues) :
                      /\ issues[i] = ThinContentInsight
                      /\ \A j \in 1..Len(issues) :
                             RuleOf(issues[j]) \in {"robots", "sitemap"} => i < j

FirstN(items, n) == SubSeq(items, 1, IF Len(items) < n THEN Len(items) ELSE n)
SourceOf(data, list) ==
    IF list = "criticalIssues" THEN data.insights ELSE data.recommendations.priority_high
HasSource(data, list) ==
    IF list = "criticalIssues" THEN Has(data, "insights")
    ELSE Has(data, "recommendations") /\ Has(data.recommendations, "priority_high")

\* a presentation list shows the first n items of its source, in order
ShowsFirst(list, n) ==
    (HasSource(fnIn, list) /\ Len(SourceOf(fnIn, list)) > 0)
        => fnOut[list] = FirstN(SourceOf(fnIn, list), n)

ThreeTier(tenths) ==
    IF tenths >= 800 THEN "green" ELSE IF tenths >= 600 THEN "yellow" ELSE "red"

ColourTier(colour) ==
    CASE colour \in {"#00ff9d", "#10b981"} -> "green"
      [] colour \in {"#ffd700", "#f59e0b"} -> "yellow"
      [] colour \in {"#ff4444", "#ef4444"} -> "red"

\* C17: a score of at least 80 is green, one of at least 60 and below 80 is yellow, one
\* below 60 is red, and applyScoreColor of both SEOVisionPro classes and getScoreColor
\* of AdvancedSEOAnalyzer give every score this same tier.
C17_ThreeTiers ==
    (fnKind = "score_color" /\ Scored) =>
        /\ ColourTier(fnOut.v1) = ThreeTier(fnIn)
        /\ ColourTier(fnOut.v2) = ThreeTier(fnIn)
        /\ ColourTier(fnOut.adv) = ThreeTier(fnIn)

\* the boundary score 60, yellow in the three classes
C17_Witness ==
    /\ fnKind = "score_color" /\ Scored
    /\ fnIn = 600
    /\ fnOut = [v1 |-> "#ffd700", v2 |-> "#ffd700", adv |-> "#f59e0b"]

FourTier(points) ==
    IF points >= 90 THEN "Excellent" ELSE IF points >= 70 THEN "Good"
    ELSE IF points >= 50 THEN "Fair" ELSE "Needs Work"

\* C18: getScoreStatus gives a score of at least 90 the tier excellent, 70 to 89 good,
\* 50 to 69 fair and less than 50 poor, and the four tiers are distinguishable: two
\* scores have the same status class only when they are in the same tier.
C18_FourTiers ==
    (fnKind = "score_status" /\ Scored) =>
        /\ fnOut.label = FourTier(fnIn)
        /\ \A other \in ScorePoints :
              getScoreStatus(other).class = fnOut.class => FourTier(other) = FourTier(fnIn)

CardOf(cards, key) == CHOOSE card \in {cards[i] : i \in 1..Len(cards)} : card.key = key
HasCard(cards, key) == \E i \in 1..Len(cards) : cards[i].key = key

\* C19: a category that is absent from the scores is left out: neither the overall
\* score nor any score card shows it as a score of 0.
C19_AbsentIsNotZero ==
    (fnKind = "score_cards" /\ Scored) =>
        \A i \in 1..Len(scoreCategories) :
            LET key == scoreCategories[i].key
            IN  ~Has(fnIn, key) => ~(HasCard(fnOut, key) /\ CardOf(fnOut, key).value = 0)

\* the rules of the narrative in their priority order: the category of each, its
\* message, and whether the record triggers it
NarrativeRules(data) ==
    LET technical == IF Has(data, "technical") THEN data.technical ELSE <<>>
        vitals == IF Has(technical, "core_web_vitals") THEN technical.core_web_vitals ELSE <<>>
        content == IF Has(data, "content") THEN data.content ELSE <<>>
        authority == IF Has(data, "authority") THEN data.authority ELSE <<>>
    IN  << [category |-> 1,
            message |-> "* LCP needs improvement (>2.5s). Optimize largest contentful paint.",
            triggered |-> NumberOver(vitals, "lcp", 2500)],
           [category |-> 1,
            message |-> "* Layout shifts detected. Fix CLS issues for better UX.",
            triggered |-> NumberOver(vitals, "cls", 100)],
           [category |-> 1,
            message |-> "* Mobile responsiveness needs improvement.",
            triggered |-> Missing(technical, "mobile_friendly")],
           [category |-> 2,
            message |-> "* Content depth is insufficient. Expand topic coverage.",
            triggered |-> ~Missing(content, "thin_content_risk")],
           [category |-> 2,
            message |-> "* Consider expanding content for better topical authority.",
            triggered |-> Has(content, "word_count") /\ content.word_count < 300],
           [category |-> 3,
            message |-> "* Domain authority is low. Focus on link building.",
            triggered |-> FieldOr(authority, "authority_score", 0) < 40] >>

ClosingSentence ==
    "Priority Recommendations: Technical fixes first, then content expansion, followed by authority building."

\* the lines of a narrative between its two-line header and its two-line closing
FindingsOf(narrative) == SubSeq(narrative, 3, Len(narrative) - 2)

CategoryOfMessage(rules, message) ==
    (CHOOSE rule \in {rules[i] : i \in 1..Len(rules)} : rule.message = message).category

NoFindingNarrated ==
    /\ fnKind = "narrative" /\ Scored
    /\ \A k \in 1..Len(NarrativeRules(fnIn)) : ~NarrativeRules(fnIn)[k].triggered
    /\ Len(fnOut) = 4 /\ fnOut[4] = ClosingSentence

\* C22: the structure value shown is site_structure_health clamped into [0,100], an
\* absent one being shown as 0: a health of 120 is shown as 100 and one of -5 as 0.
C22_StructureClamped ==
    (fnKind = "structure" /\ Scored) =>
        /\ fnOut.value \in 0..100
        /\ LET health == FieldOr(fnIn, "site_structure_health", 0)
           IN  /\ health > 1000 => fnOut.value = 100
               /\ health < 0 => fnOut.value = 0
               /\ health \in 0..1000 => fnOut.value = (health + 5) \div 10

\* C23: once hideLoading has run for an audit (its request has settled), no progress
\* interval of that audit is still active, in any of the four classes.
C23_NoTimerAfterHideLoading == \A t \in progress : t.id \in pending

\* an audit is in flight from its showLoading until its hideLoading has completed,
\* the 500 ms timeout of hideLoading included
InFlight == pending # {} \/ hideTimers > 0

\* C24: in the classes whose showLoading disables the button, at most one audit is in
\* flight at a time, and the button is disabled for as long as one is.
C24_OneAuditInFlight ==
    variant # "p0" =>
        /\ Cardinality(pending) <= 1
        /\ InFlight => btnDisabled

\* the loading state is over: the panel is hidden and the button enabled
LoadingOver == ~loading /\ ~btnDisabled

\* every started audit gets there, whatever its request came to
LoadingEnds ==
    \A id \in 1..MaxAudits : (id \in pending) ~> (id \notin pending /\ LoadingOver)

\* an input event of the second SEOVisionPro that leaves a non-empty invalid text
InvalidTextTyped == variant = "v2" /\ urlValue' # urlValue /\ urlValue' = "invalid"

\* C25 as stated: every started audit eventually has its panel hidden and its button
\* enabled, and both stay so until the next audit is started.
C25_LoadingEndsAndStays ==
    /\ LoadingEnds
    /\ [][(started > 0 /\ LoadingOver /\ started' = started) => LoadingOver']_vars

\* C25: every started audit eventually has its panel hidden and its button enabled,
\* whatever its request came to; the panel then stays hidden until the next audit is
\* started, and the button stays enabled until then or until validateInput of the
\* second SEOVisionPro disables it for a non-empty invalid text.
C25_LoadingEnds ==
    /\ LoadingEnds
    /\ [][(started > 0 /\ LoadingOver /\ started' = started) =>
            (~loading' /\ (btnDisabled' => InvalidTextTyped))]_vars

\* an audit whose request failed has ended its loading state
C25_Witness ==
    /\ started > 0 /\ pending = {} /\ hideTimers = 0
    /\ notification \in {Notify("error", "Audit failed"), Notify("error", "Analysis failed")}
    /\ LoadingOver

\* after a finished audit, an invalid text has disabled the button again
ButtonDisabledByInput ==
    /\ variant = "v2" /\ started > 0 /\ pending = {}
    /\ lastEvent.handler = "input" /\ ~loading /\ btnDisabled

\* the element shows exactly the text, without the cursor
FullTextShown == fnOut = [text |-> fnIn.text, cursor |-> FALSE]

\* C26: typeWriter terminates for every finite text, the empty one included; while
\* it runs the element shows a prefix of the text followed by the cursor, each one
\* character longer than the one before; it ends with the element showing exactly
\* the text without the cursor and has then called back exactly once;
\* aiStreamComplete is true only when the full text is shown and the categories
\* have been populated.
C26_TypeWriter ==
    /\ <>(fnOp = "done")
    /\ [](fnOp = "typing" =>
            /\ fnOut.cursor
            /\ Len(fnOut.text) \in 1..Len(fnIn.text)
            /\ fnOut.text = SubSeq(fnIn.text, 1, Len(fnOut.text))
            /\ fnPrev.callbacks = 0)
    /\ [][fnOp' = "typing" => Len(fnOut'.text) = Len(fnOut.text) + 1]_vars
    /\ [](fnOp = "done" => FullTextShown /\ fnPrev.callbacks = 1)
    /\ [](aiStreamComplete =>
            /\ fnOp = "done" /\ FullTextShown
            /\ aiLists = populateAICategories(NoItems, fnIn.data))

\* a text of MaxText characters has been typed out
C26_Witness ==
    /\ fnKind = "typeWriter" /\ fnOp = "done"
    /\ Len(fnIn.text) = MaxText /\ FullTextShown
    /\ fnPrev.callbacks = 1 /\ aiStreamComplete

\* the empty text: the first call already ends
EmptyTextTyped ==
    /\ fnKind = "typeWriter" /\ fnOp = "done"
    /\ fnIn.text = <<>> /\ FullTextShown /\ aiStreamComplete

\* every stream started so far has run its callback
StreamsFinished == aiTimers = <<>> /\ typing = <<>>

\* C27: aiStreamComplete is never set by the stream of an audit that resetAudit has
\* put away, and once every stream has finished the three lists hold exactly the
\* items of the latest audit that was streamed, each once.
C27_StreamIsolation ==
    /\ aiStreamComplete => ~streamOld
    /\ (StreamsFinished /\ aiText.n > 0) =>
           aiLists = populateAICategories(NoItems, aiText.data)

\* C28: a notification of AdvancedSEOAnalyzer stays shown until its own 5-second
\* timer fires: while the timer of the latest notification is pending, the
\* notification element is shown.
C28_ShownUntilOwnTimer == notifTimers > 0 => notifShown

\* C29: for every technical sub-record, countTechnicalOpportunities returns the
\* number of issues extractTechnicalIssues returns for it.
C29_CountEqualsIssues ==
    (fnKind = "technical_count" /\ Scored) => fnOut.count = Len(fnOut.issues)

\* the step is startAudit / startAnalysis on a text that is not a URL
RejectedStart ==
    /\ lastEvent'.handler \in {"startAudit", "startAnalysis"}
    /\ lastEvent'.resp = NoResponse
    /\ ~isValidURL(urlValue)

\* the step is shareReport, shareResults or exportReport with no completed audit
RejectedShare ==
    /\ lastEvent'.handler \in {"shareReport", "shareResults", "exportReport"}
    /\ ~completed

RejectedStartChangesNothing ==
    [][RejectedStart =>
           /\ notification'.type = "error"
           /\ UNCHANGED <<started, pending, loading, dashboard, currentAudit, shown>>]_vars

RejectedShareWritesNothing ==
    [][RejectedShare =>
           /\ notification'.type = "error"
           /\ UNCHANGED <<clipboard, download>>]_vars

\* C30: a start with an empty or invalid URL issues no request, does not enter the
\* loading state and leaves the dashboard and currentAudit as they are; shareReport,
\* shareResults and exportReport, when no audit has completed, show an error
\* notification and write nothing to the clipboard or to a download.
C30_RejectedActionsChangeNothing ==
    RejectedStartChangesNothing /\ RejectedShareWritesNothing

====
